---- MODULE Spec2Model ----
(***************************************************************************)
(* The MFA-aware AWS call wrapper (callWithMfaRetry) of the fiftyten       *)
(* db-connect / db-toolkit command line tools, with the components that    *)
(* carry a copy of it and the credential state they share.                 *)
(*                                                                         *)
(* One behaviour is one process run: a command constructs its root         *)
(* component (and, through the constructors, the nested ones) and then     *)
(* issues wrapped AWS calls one after the other.  A wrapped call is split  *)
(* at its awaits: the first operation(), authenticateWithMfa(), and the    *)
(* second operation().  What AWS and the operator answer is the            *)
(* environment's choice.                                                   *)
(***************************************************************************)
EXTENDS Integers, Sequences, FiniteSets, TLC

VARIABLES
    root,              \* the component the command constructed
    mfaAuthenticated,  \* [instance -> BOOLEAN], the private flag of each instance
    clients,           \* [instance -> [field -> client]], the service clients held
    env,               \* process.env: the three ambient credential variables
    pc,                \* position of the (single) thread of control
    cur,               \* the wrapped call in progress: instance and operation
    credentials,       \* the local `credentials` of the call in progress
    invocations,       \* how often operation() was invoked in this call
    sends,             \* the client each invocation sent on, in order
    first,             \* outcome of the first operation()
    second,            \* outcome of the second operation()
    result,            \* outcome of the wrapped call as the caller sees it
    trace,             \* the steps of the call in progress, in program order
    pre,               \* flag, env and clients as they were when the call began
    issued,            \* token exchanges that succeeded in this process
    started,           \* [instance -> Nat] interactive flows begun
    failed,            \* [instance -> Nat] interactive flows that threw
    ncalls,            \* wrapped calls begun in this process
    rejection,         \* what the token exchange of the call in progress threw
    fn,                \* a function under evaluation: its argument and its value
    flow,              \* authenticateWithMfa() in progress: position, answers, requests
    tasks,             \* [task -> call], callWithMfaRetry calls that overlap in time
    mig,               \* a pg_dump migration in progress: position, tunnels, files
    scan,              \* a DynamoDB read command in progress: items received and shown
    conn,              \* a tunnel or password connection in progress: ports, timers, psql
    dms,               \* a DMS migration start in progress: connection tests and polls
    stack              \* a CloudFormation deployment in progress: requests and statuses

vars == <<root, mfaAuthenticated, clients, env, pc, cur, credentials, invocations,
          sends, first, second, result, trace, pre, issued, started, failed, ncalls,
          rejection, fn, flow, tasks, mig, scan, conn, dms, stack>>

\* The state of the components and of the wrapped call in progress.
main == <<root, mfaAuthenticated, clients, env, pc, cur, credentials, invocations,
          sends, first, second, result, trace, pre, issued, started, failed, ncalls,
          rejection>>

\* The state of the parts of the program a process run of the wrapper leaves alone.
aux == <<fn, flow, tasks, mig, scan, conn, dms, stack>>

\* What a classification, a run of authenticateWithMfa() on its own, and
\* overlapping calls leave alone.
notFn == <<main, flow, tasks, mig, scan, conn, dms, stack>>
notFlow == <<main, fn, tasks, mig, scan, conn, dms, stack>>
notMig == <<main, fn, flow, tasks, scan, conn, dms, stack>>
notScan == <<main, fn, flow, tasks, mig, conn, dms, stack>>
notConn == <<main, fn, flow, tasks, mig, scan, dms, stack>>
notDms == <<main, fn, flow, tasks, mig, scan, conn, stack>>
notStack == <<main, fn, flow, tasks, mig, scan, conn, dms>>
notTasks == <<root, pc, cur, credentials, invocations, sends, first, second, result,
              trace, pre, ncalls, rejection, fn, flow, mig, scan, conn, dms, stack>>

----------------------------------------------------------------------------
(* Bounds *)

MaxCalls == 3

\* How often one prompt loop is answered.
MaxPrompts == 2

\* How many MFA devices ListMFADevices returns at most.
MaxDevices == 2

\* How many security groups a database has at most.
MaxGroups == 2

\* How many items a DynamoDB read returns at most.
MaxItems == 1

\* How many chunks of output the tunnel process writes at most.
MaxData == 2

\* How many times one waitForStackOperation describes the stack at most.
MaxPolls == 2

----------------------------------------------------------------------------
(* Components *)

Inst == {"dc", "cfn", "mm", "mm_cfn", "pg", "ddb"}

Roots == {"dc", "mm", "pg", "ddb"}

Kind(i) ==
    CASE i = "dc" -> "DatabaseConnector"
      [] i \in {"cfn", "mm_cfn"} -> "CloudFormationManager"
      [] i = "mm" -> "MigrationManager"
      [] i = "pg" -> "PgMigrationManager"
      [] i = "ddb" -> "DynamoDBConnector"

\* The components an instance constructs and keeps in its own fields.
Nested(i) ==
    CASE i = "pg" -> {"dc", "cfn", "mm"}
      [] i = "mm" -> {"mm_cfn"}
      [] OTHER -> {}

\* Every instance alive in a process whose command constructed r.
Live(r) ==
    CASE r = "pg" -> {"pg", "dc", "cfn", "mm", "mm_cfn"}
      [] r = "mm" -> {"mm", "mm_cfn"}
      [] r = "dc" -> {"dc"}
      [] r = "ddb" -> {"ddb"}

\* The service client fields of each class.
Fields(k) ==
    CASE k = "DatabaseConnector" -> {"ec2Client", "ssmClient", "secretsClient"}
      [] k = "CloudFormationManager" -> {"cfnClient", "ec2Client", "rdsClient", "ssmClient"}
      [] k = "MigrationManager" -> {"cfnClient", "dmsClient"}
      [] k = "PgMigrationManager" -> {"ec2Client", "ssmClient"}
      [] k = "DynamoDBConnector" -> {"dynamoClient", "docClient"}

\* The fields callWithMfaRetry of each class assigns a new client to.
Rebuilt(k) ==
    CASE k = "DatabaseConnector" -> {"ec2Client", "ssmClient", "secretsClient"}
      [] k = "CloudFormationManager" -> {"cfnClient", "ec2Client", "rdsClient", "ssmClient"}
      [] k = "MigrationManager" -> {"cfnClient", "dmsClient"}
      [] k = "PgMigrationManager" -> {"ec2Client", "ssmClient"}
      [] OTHER -> {}

Wrapped == {i \in Inst : Kind(i) # "DynamoDBConnector"}

----------------------------------------------------------------------------
(* Credentials and clients *)

\* What the k-th successful token exchange returns.
Credential(k) ==
    [accessKeyId |-> <<"AccessKeyId", k>>,
     secretAccessKey |-> <<"SecretAccessKey", k>>,
     sessionToken |-> <<"SessionToken", k>>]

\* No explicit credentials: `new XClient({ region })`.
NoCredentials ==
    [accessKeyId |-> <<"none", 0>>,
     secretAccessKey |-> <<"none", 0>>,
     sessionToken |-> <<"none", 0>>]

\* A client, by the credentials its constructor was given and by how many token
\* exchanges had succeeded when it was constructed.
NewClient(c, n) == [credentials |-> c, builtAt |-> n]

\* process.env as the process finds it.
StartupEnv ==
    [AWS_ACCESS_KEY_ID |-> <<"startup", 0>>,
     AWS_SECRET_ACCESS_KEY |-> <<"startup", 0>>,
     AWS_SESSION_TOKEN |-> <<"startup", 0>>]

applyCredentials(c) ==
    [AWS_ACCESS_KEY_ID |-> c.accessKeyId,
     AWS_SECRET_ACCESS_KEY |-> c.secretAccessKey,
     AWS_SESSION_TOKEN |-> c.sessionToken]

\* A wrapper that exports the credential and keeps the clients it has.
RecreateClients_Skipped(i, c, n) == clients[i]

\* The clients of instance i after the "Recreate clients" block ran with c.
RecreateClients(i, c, n) ==
    [f \in Fields(Kind(i)) |->
        IF f \in Rebuilt(Kind(i)) THEN NewClient(c, n) ELSE clients[i][f]]

----------------------------------------------------------------------------
(* Errors and their classification *)

Includes(s, sub) ==
    \E k \in 1..(Len(s) - Len(sub) + 1) : SubSeq(s, k, k + Len(sub) - 1) = sub

\* JavaScript's a || b on strings: the empty (or missing) string is falsy.
OrElse(a, b) == IF a # "" THEN a ELSE b

\* A classifier that looks at the message only.
isMfaRequired_MessageOnly(error) ==
    \/ Includes(error.message, "explicit deny")
    \/ Includes(error.message, "MFA")
    \/ Includes(error.message, "MultiFactorAuthentication")

isMfaRequired(error) ==
    LET errorMessage == OrElse(error.message, "")
        errorCode == OrElse(OrElse(error.Code, error.name), "")
    IN  \/ Includes(errorMessage, "explicit deny")
        \/ Includes(errorMessage, "MFA")
        \/ Includes(errorMessage, "MultiFactorAuthentication")
        \/ errorCode = "AccessDenied"
        \/ errorCode = "AccessDeniedException"

Err(m, c, n) == [message |-> m, Code |-> c, name |-> n]

\* What an AWS service call may fail with.
AwsErrors ==
    { Err("User is not authorized to perform ssm:GetParameter with an explicit deny", "", "Error"),
      Err("not authorized", "", "AccessDeniedException"),
      Err("ValidationException: bad parameter", "", "ValidationException") }

\* What sts:GetSessionToken may reject the entered code with.
StsErrors ==
    { Err("MultiFactorAuthentication failed with invalid MFA one time pass code", "", "AccessDenied"),
      Err("Invalid TokenCode", "", "ValidationError"),
      Err("AccessDenied: cannot call GetSessionToken", "", "Error"),
      Err("AccessDenied: the TokenCode is not valid for this device", "", "Error"),
      Err("AccessDenied: MultiFactorAuthentication failed, TokenCode rejected", "", "Error"),
      Err("No credentials returned from STS", "", "Error"),
      Err("getaddrinfo ENOTFOUND sts.us-west-1.amazonaws.com", "", "Error") }

\* A catch block that tests for AccessDenied first.
TranslateStsError_AccessDeniedFirst(error) ==
    IF Includes(error.message, "AccessDenied")
    THEN Err("Access denied. Please check your MFA device serial number.", "", "Error")
    ELSE IF Includes(error.message, "MultiFactorAuthentication")
    THEN Err("Invalid MFA token code. Please try again.", "", "Error")
    ELSE IF Includes(error.message, "TokenCode")
    THEN Err("Invalid or expired MFA token code.", "", "Error")
    ELSE error

\* The catch block of getSessionTokenWithMfa.
TranslateStsError(error) ==
    IF Includes(error.message, "MultiFactorAuthentication")
    THEN Err("Invalid MFA token code. Please try again.", "", "Error")
    ELSE IF Includes(error.message, "TokenCode")
    THEN Err("Invalid or expired MFA token code.", "", "Error")
    ELSE IF Includes(error.message, "AccessDenied")
    THEN Err("Access denied. Please check your MFA device serial number.", "", "Error")
    ELSE error

----------------------------------------------------------------------------
(* Outcomes of an operation or of a wrapped call *)

Values == {"v1", "v2"}

None == [kind |-> "none"]

\* A part of the program that is not running.
Off == [pc |-> "off"]

Returned(v) == [kind |-> "value", value |-> v]
Thrown(e) == [kind |-> "error", error |-> e]

Outcomes == {Returned(v) : v \in Values} \cup {Thrown(e) : e \in AwsErrors}

\* The operations the call sites hand to callWithMfaRetry, by the client they
\* send on: a field of the instance, read when the operation runs, or (in
\* PgMigrationManager.getSecretPassword) a local client constructed before the
\* wrapper is entered and captured by the closure.
Ops(i) ==
    [client : Rebuilt(Kind(i)), captured : {FALSE}]
        \cup (IF Kind(i) = "PgMigrationManager"
              THEN {[client |-> "secretsClient", captured |-> TRUE]}
              ELSE {})

\* The client one invocation of the operation sends on.
ClientOf(i, op, local) ==
    IF op.captured THEN local ELSE clients[i][op.client]

----------------------------------------------------------------------------
(* The state after the command constructed its root component *)

Constructed ==
    /\ root \in Roots
    /\ mfaAuthenticated = [i \in Inst |-> FALSE]
    /\ clients = [i \in Inst |-> [f \in Fields(Kind(i)) |-> NewClient(NoCredentials, 0)]]
    /\ env = StartupEnv
    /\ pc = "idle"
    /\ cur = [inst |-> root, op |-> [client |-> "none", captured |-> FALSE],
              local |-> NewClient(NoCredentials, 0), via |-> "none"]
    /\ credentials = NoCredentials
    /\ invocations = 0
    /\ sends = << >>
    /\ first = None
    /\ second = None
    /\ result = None
    /\ trace = << >>
    /\ pre = [mfaAuthenticated |-> [i \in Inst |-> FALSE],
              env |-> StartupEnv,
              clients |-> [i \in Inst |-> [f \in Fields(Kind(i)) |-> NewClient(NoCredentials, 0)]]]
    /\ issued = 0
    /\ started = [i \in Inst |-> 0]
    /\ failed = [i \in Inst |-> 0]
    /\ ncalls = 0
    /\ rejection = None

Init ==
    /\ Constructed
    /\ fn = Off /\ flow = Off /\ tasks = Off /\ mig = Off
    /\ scan = Off /\ conn = Off /\ dms = Off /\ stack = Off

Snapshot == [mfaAuthenticated |-> mfaAuthenticated, env |-> env, clients |-> clients]

----------------------------------------------------------------------------
(* callWithMfaRetry, statement by statement *)

\* The caller enters callWithMfaRetry(operation): `return await operation()`.
\* A closure of getSecretPassword has constructed its local client just before.
Call(i, op) ==
    /\ pc \in {"idle", "done"}
    /\ ncalls < MaxCalls
    /\ i \in Live(root) \cap Wrapped
    /\ op \in Ops(i)
    /\ LET local == NewClient(NoCredentials, issued) IN
        /\ cur' = [inst |-> i, op |-> op, local |-> local, via |-> "callWithMfaRetry"]
        /\ sends' = <<ClientOf(i, op, local)>>
    /\ ncalls' = ncalls + 1
    /\ invocations' = 1
    /\ credentials' = NoCredentials
    /\ first' = None
    /\ second' = None
    /\ result' = None
    /\ trace' = <<"invoke">>
    /\ pre' = Snapshot
    /\ rejection' = None
    /\ pc' = "op1"
    /\ UNCHANGED <<aux, root, mfaAuthenticated, clients, env, issued, started, failed>>

\* The test without its second half: the flag is never consulted.
ShouldAuthenticate_NoFlagTest(error, i) == isMfaRequired(error)

\* The test without its first half: any failure of an Unauthenticated instance.
ShouldAuthenticate_Unclassified(error, i) == ~mfaAuthenticated[i]

\* The test of the catch block: MFA-related and not yet authenticated.
ShouldAuthenticate(error, i) == isMfaRequired(error) /\ ~mfaAuthenticated[i]

\* A wrapper that takes a first success as proof of good credentials and sets
\* the flag there too.
FirstSettles_MarksOnSuccess(o) ==
    /\ pc = "op1"
    /\ o \in Outcomes
    /\ first' = o
    /\ IF o.kind = "value"
       THEN /\ result' = o
            /\ pc' = "done"
            /\ trace' = Append(trace, "returned")
            /\ mfaAuthenticated' = [mfaAuthenticated EXCEPT ![cur.inst] = TRUE]
            /\ UNCHANGED started
       ELSE IF isMfaRequired(o.error) /\ ~mfaAuthenticated[cur.inst]
       THEN /\ pc' = "auth"
            /\ started' = [started EXCEPT ![cur.inst] = @ + 1]
            /\ trace' = trace \o <<"failed", "challenge">>
            /\ UNCHANGED <<result, mfaAuthenticated>>
       ELSE /\ result' = o
            /\ pc' = "done"
            /\ trace' = trace \o <<"failed", "rethrown">>
            /\ UNCHANGED <<started, mfaAuthenticated>>
    /\ UNCHANGED <<aux, rejection, root, clients, env, cur, credentials, invocations,
                   sends, second, pre, issued, failed, ncalls>>

\* The first operation() settles: return its value, or enter the catch block,
\* which either starts authenticateWithMfa() or rethrows the error.
FirstSettles(o) ==
    /\ pc = "op1"
    /\ o \in Outcomes
    /\ first' = o
    /\ IF o.kind = "value"
       THEN /\ result' = o
            /\ pc' = "done"
            /\ trace' = Append(trace, "returned")
            /\ UNCHANGED started
       ELSE IF ShouldAuthenticate(o.error, cur.inst)
       THEN /\ pc' = "auth"
            /\ started' = [started EXCEPT ![cur.inst] = @ + 1]
            /\ trace' = trace \o <<"failed", "challenge">>
            /\ UNCHANGED result
       ELSE /\ result' = o
            /\ pc' = "done"
            /\ trace' = trace \o <<"failed", "rethrown">>
            /\ UNCHANGED started
    /\ UNCHANGED <<aux, rejection, root, mfaAuthenticated, clients, env, cur, credentials, invocations,
                   sends, second, pre, issued, failed, ncalls>>

\* A wrapper that sets the flag before it awaits authenticateWithMfa(), so that
\* a failed exchange uses the instance's one challenge up.
AuthThrows_ConsumesBudget(e) ==
    /\ pc = "auth"
    /\ e \in StsErrors
    /\ rejection' = Thrown(e)
    /\ result' = Thrown(TranslateStsError(e))
    /\ failed' = [failed EXCEPT ![cur.inst] = @ + 1]
    /\ mfaAuthenticated' = [mfaAuthenticated EXCEPT ![cur.inst] = TRUE]
    /\ trace' = Append(trace, "exchange_failed")
    /\ pc' = "done"
    /\ UNCHANGED <<aux, root, clients, env, cur, credentials, invocations,
                   sends, first, second, pre, issued, started, ncalls>>

\* authenticateWithMfa() throws: the rejection of the token exchange, translated
\* by getSessionTokenWithMfa, leaves callWithMfaRetry from inside its catch block.
AuthThrows(e) ==
    /\ pc = "auth"
    /\ e \in StsErrors
    /\ rejection' = Thrown(e)
    /\ result' = Thrown(TranslateStsError(e))
    /\ failed' = [failed EXCEPT ![cur.inst] = @ + 1]
    /\ trace' = Append(trace, "exchange_failed")
    /\ pc' = "done"
    /\ UNCHANGED <<aux, root, mfaAuthenticated, clients, env, cur, credentials, invocations,
                   sends, first, second, pre, issued, started, ncalls>>

\* authenticateWithMfa() returns the credentials of the token exchange.
AuthReturns ==
    /\ pc = "auth"
    /\ issued' = issued + 1
    /\ credentials' = Credential(issued + 1)
    /\ trace' = Append(trace, "exchange_ok")
    /\ pc' = "apply"
    /\ UNCHANGED <<aux, rejection, root, mfaAuthenticated, clients, env, cur, invocations, sends,
                   first, second, result, pre, started, failed, ncalls>>

\* this.mfaAuth.applyCredentials(credentials)
ApplyCredentials ==
    /\ pc = "apply"
    /\ env' = applyCredentials(credentials)
    /\ trace' = Append(trace, "export")
    /\ pc' = "recreate"
    /\ UNCHANGED <<aux, rejection, root, mfaAuthenticated, clients, cur, credentials, invocations, sends,
                   first, second, result, pre, issued, started, failed, ncalls>>

\* "Recreate clients with new credentials"
Recreate ==
    /\ pc = "recreate"
    /\ clients' = [clients EXCEPT ![cur.inst] = RecreateClients(cur.inst, credentials, issued)]
    /\ trace' = Append(trace, "rebuild")
    /\ pc' = "mark"
    /\ UNCHANGED <<aux, rejection, root, mfaAuthenticated, env, cur, credentials, invocations, sends,
                   first, second, result, pre, issued, started, failed, ncalls>>

\* A wrapper that never sets the flag.
MarkAuthenticated_Forgotten ==
    /\ pc = "mark"
    /\ trace' = Append(trace, "authenticated")
    /\ pc' = "retry"
    /\ UNCHANGED <<aux, rejection, root, mfaAuthenticated, clients, env, cur, credentials, invocations,
                   sends, first, second, result, pre, issued, started, failed, ncalls>>

\* this.mfaAuthenticated = true
MarkAuthenticated ==
    /\ pc = "mark"
    /\ mfaAuthenticated' = [mfaAuthenticated EXCEPT ![cur.inst] = TRUE]
    /\ trace' = Append(trace, "authenticated")
    /\ pc' = "retry"
    /\ UNCHANGED <<aux, rejection, root, clients, env, cur, credentials, invocations, sends,
                   first, second, result, pre, issued, started, failed, ncalls>>

\* `return await operation()` inside the catch block: the second invocation.
Retry ==
    /\ pc = "retry"
    /\ invocations' = invocations + 1
    /\ sends' = Append(sends, ClientOf(cur.inst, cur.op, cur.local))
    /\ trace' = Append(trace, "invoke")
    /\ pc' = "op2"
    /\ UNCHANGED <<aux, rejection, root, mfaAuthenticated, clients, env, cur, credentials,
                   first, second, result, pre, issued, started, failed, ncalls>>

\* A wrapper that rethrows the error it caught when the retry fails too.
SecondSettles_RethrowsFirst(o) ==
    /\ pc = "op2"
    /\ o \in Outcomes
    /\ second' = o
    /\ result' = IF o.kind = "value" THEN o ELSE first
    /\ trace' = Append(trace, IF o.kind = "value" THEN "returned" ELSE "failed")
    /\ pc' = "done"
    /\ UNCHANGED <<aux, rejection, root, mfaAuthenticated, clients, env, cur, credentials, invocations,
                   sends, first, pre, issued, started, failed, ncalls>>

\* The second operation() settles, and its outcome is the outcome of the call.
SecondSettles(o) ==
    /\ pc = "op2"
    /\ o \in Outcomes
    /\ second' = o
    /\ result' = o
    /\ trace' = Append(trace, IF o.kind = "value" THEN "returned" ELSE "failed")
    /\ pc' = "done"
    /\ UNCHANGED <<aux, rejection, root, mfaAuthenticated, clients, env, cur, credentials, invocations,
                   sends, first, pre, issued, started, failed, ncalls>>

----------------------------------------------------------------------------
(* DynamoDBConnector: ensureMfaAuthentication() and then the send *)

\* The public methods, by the client they send on and the prefix of the error
\* they throw (listTables, scanTable).
DdbOps ==
    { [client |-> "dynamoClient", captured |-> FALSE, prefix |-> "Failed to list tables: "],
      [client |-> "docClient", captured |-> FALSE, prefix |-> "Failed to scan table: "] }

\* The method sends its command on the client the instance holds.
DdbSend(op) ==
    /\ invocations' = 1
    /\ sends' = <<clients["ddb"][op.client]>>
    /\ pc' = "send"

\* A method is called: `await this.ensureMfaAuthentication()` comes first and,
\* while the flag is unset, starts authenticateWithMfa().
DdbCall(op) ==
    /\ pc \in {"idle", "done"}
    /\ ncalls < MaxCalls
    /\ root = "ddb"
    /\ op \in DdbOps
    /\ cur' = [inst |-> "ddb", op |-> op, local |-> NewClient(NoCredentials, issued),
                via |-> "ensureMfaAuthentication"]
    /\ rejection' = None
    /\ ncalls' = ncalls + 1
    /\ credentials' = NoCredentials
    /\ first' = None
    /\ second' = None
    /\ result' = None
    /\ pre' = Snapshot
    /\ IF ~mfaAuthenticated["ddb"]
       THEN /\ pc' = "ensure"
            /\ started' = [started EXCEPT !["ddb"] = @ + 1]
            /\ trace' = <<"challenge">>
            /\ invocations' = 0
            /\ sends' = << >>
       ELSE /\ DdbSend(op)
            /\ trace' = <<"invoke">>
            /\ UNCHANGED started
    /\ UNCHANGED <<aux, root, mfaAuthenticated, clients, env, issued, failed>>

\* authenticateWithMfa() returns: the flag is set and the credentials dropped.
EnsureReturns ==
    /\ pc = "ensure"
    /\ issued' = issued + 1
    /\ mfaAuthenticated' = [mfaAuthenticated EXCEPT !["ddb"] = TRUE]
    /\ trace' = trace \o <<"exchange_ok", "authenticated", "invoke">>
    /\ DdbSend(cur.op)
    /\ UNCHANGED <<aux, rejection, root, clients, env, cur, credentials, first, second, result, pre,
                   started, failed, ncalls>>

\* authenticateWithMfa() throws: the catch block logs and the method goes on.
EnsureThrows(e) ==
    /\ pc = "ensure"
    /\ e \in StsErrors
    /\ rejection' = Thrown(e)
    /\ failed' = [failed EXCEPT !["ddb"] = @ + 1]
    /\ trace' = trace \o <<"exchange_failed", "invoke">>
    /\ DdbSend(cur.op)
    /\ UNCHANGED <<aux, root, mfaAuthenticated, clients, env, cur, credentials, first, second,
                   result, pre, issued, started, ncalls>>

\* The send settles: a failure is thrown again under the method's prefix.
DdbSettles(o) ==
    /\ pc = "send"
    /\ o \in Outcomes
    /\ first' = o
    /\ result' = IF o.kind = "value"
                 THEN o
                 ELSE Thrown(Err(cur.op.prefix \o o.error.message, "", "Error"))
    /\ trace' = Append(trace, IF o.kind = "value" THEN "returned" ELSE "failed")
    /\ pc' = "done"
    /\ UNCHANGED <<aux, rejection, root, mfaAuthenticated, clients, env, cur, credentials, invocations,
                   sends, second, pre, issued, started, failed, ncalls>>

----------------------------------------------------------------------------
(* Sends outside callWithMfaRetry *)

\* The call sites that await client.send() themselves: getConnectionInfo as
\* showInfo and listEnvironments call it, and the TestConnection and
\* DescribeConnections of testAndWaitForConnection.
DirectOps(i) ==
    CASE Kind(i) = "DatabaseConnector" -> {[client |-> "ssmClient", captured |-> FALSE]}
      [] Kind(i) = "MigrationManager" -> {[client |-> "dmsClient", captured |-> FALSE]}
      [] OTHER -> {}

\* `await this.ssmClient.send(command)`, `await this.dmsClient.send(testCommand)`
DirectCall(i, op) ==
    /\ pc \in {"idle", "done"}
    /\ ncalls < MaxCalls
    /\ i \in Live(root)
    /\ op \in DirectOps(i)
    /\ cur' = [inst |-> i, op |-> op, local |-> NewClient(NoCredentials, issued),
                via |-> "send"]
    /\ sends' = <<clients[i][op.client]>>
    /\ ncalls' = ncalls + 1
    /\ invocations' = 1
    /\ credentials' = NoCredentials
    /\ first' = None
    /\ second' = None
    /\ result' = None
    /\ rejection' = None
    /\ trace' = <<"invoke">>
    /\ pre' = Snapshot
    /\ pc' = "direct"
    /\ UNCHANGED <<aux, root, mfaAuthenticated, clients, env, issued, started, failed>>

\* The send settles; a failure goes to the catch block of the calling method,
\* which prints it.
DirectSettles(o) ==
    /\ pc = "direct"
    /\ o \in Outcomes
    /\ first' = o
    /\ result' = o
    /\ trace' = Append(trace, IF o.kind = "value" THEN "returned" ELSE "failed")
    /\ pc' = "done"
    /\ UNCHANGED <<aux, rejection, root, mfaAuthenticated, clients, env, cur, credentials,
                   invocations, sends, second, pre, issued, started, failed, ncalls>>

----------------------------------------------------------------------------
(* The process *)

Next ==
    \/ \E i \in Inst : \E op \in Ops(i) : Call(i, op)
    \/ \E o \in Outcomes : FirstSettles(o)
    \/ \E e \in StsErrors : AuthThrows(e)
    \/ AuthReturns
    \/ ApplyCredentials
    \/ Recreate
    \/ MarkAuthenticated
    \/ Retry
    \/ \E o \in Outcomes : SecondSettles(o)
    \/ \E op \in DdbOps : DdbCall(op)
    \/ EnsureReturns
    \/ \E e \in StsErrors : EnsureThrows(e)
    \/ \E o \in Outcomes : DdbSettles(o)
    \/ \E i \in Inst : \E op \in DirectOps(i) : DirectCall(i, op)
    \/ \E o \in Outcomes : DirectSettles(o)

Spec == Init /\ [][Next]_vars

----------------------------------------------------------------------------
(* Vocabulary of the claims *)

Count(seq, x) == Cardinality({k \in DOMAIN seq : seq[k] = x})

Last(seq) == seq[Len(seq)]

Total(f) == f["dc"] + f["cfn"] + f["mm"] + f["mm_cfn"] + f["pg"] + f["ddb"]

\* The call in progress, or just finished, is a callWithMfaRetry call.
InWrapper == ncalls > 0 /\ cur.via = "callWithMfaRetry"

MfaFailure(o) == o.kind = "error" /\ isMfaRequired(o.error)

OtherFailure(o) == o.kind = "error" /\ ~isMfaRequired(o.error)

\* Nothing the call could have touched differs from when it began.
Untouched == Snapshot = pre

Exported == env = applyCredentials(credentials)

RebuiltWith(i, c) == \A f \in Rebuilt(Kind(i)) : clients[i][f].credentials = c

\* The call met an MFA-classified failure while its instance was
\* Unauthenticated, and the re-authentication succeeded.
OnMfaPath ==
    /\ InWrapper
    /\ MfaFailure(first)
    /\ ~pre.mfaAuthenticated[cur.inst]
    /\ Count(trace, "exchange_ok") = 1

MfaPathTrace ==
    <<"invoke", "failed", "challenge", "exchange_ok", "export", "rebuild",
      "authenticated", "invoke">>

----------------------------------------------------------------------------
(* isMfaRequired on its own: every error it may be handed, classified once *)

\* Error messages, with the three trigger substrings, their other spellings,
\* and messages that only mention a trigger code.
Messages ==
    { "",
      "User is not authorized with an explicit deny",
      "User is not authorized with an Explicit Deny",
      "MFA required",
      "mfa required",
      "MultiFactorAuthentication failed",
      "multifactorauthentication failed",
      "AccessDenied",
      "AccessDeniedException: no",
      "Rate exceeded" }

\* What error.Code and error.name may hold ("" stands for a missing property).
Codes ==
    {"", "AccessDenied", "AccessDeniedException", "accessdenied", "AccessDeniedExceptions",
     "ThrottlingException"}

Names == {"", "Error", "AccessDenied", "AccessDeniedException"}

ErrorInputs == {Err(m, c, n) : m \in Messages, c \in Codes, n \in Names}

InitClassify ==
    /\ Constructed
    /\ root = "dc"
    /\ flow = Off
    /\ tasks = Off
    /\ mig = Off
    /\ scan = Off
    /\ conn = Off
    /\ dms = Off
    /\ stack = Off
    /\ fn \in {[pc |-> "called", name |-> "isMfaRequired", arg |-> e, value |-> FALSE] :
                    e \in ErrorInputs}

\* this.mfaAuth.isMfaRequired(error)
Classify ==
    /\ fn.pc = "called"
    /\ fn.name = "isMfaRequired"
    /\ fn' = [fn EXCEPT !.pc = "returned", !.value = isMfaRequired(fn.arg)]
    /\ UNCHANGED notFn

NextClassify == Classify

SpecClassify == InitClassify /\ [][NextClassify]_vars

----------------------------------------------------------------------------
(* Strings as the prompts read them *)

Whitespace == {" ", "\t"}

RECURSIVE TrimStart(_)
TrimStart(s) ==
    IF s # "" /\ SubSeq(s, 1, 1) \in Whitespace
    THEN TrimStart(SubSeq(s, 2, Len(s)))
    ELSE s

RECURSIVE TrimEnd(_)
TrimEnd(s) ==
    IF s # "" /\ SubSeq(s, Len(s), Len(s)) \in Whitespace
    THEN TrimEnd(SubSeq(s, 1, Len(s) - 1))
    ELSE s

\* String.prototype.trim
Trim(s) == TrimEnd(TrimStart(s))

\* String.prototype.startsWith
StartsWith(s, prefix) == Len(s) >= Len(prefix) /\ SubSeq(s, 1, Len(prefix)) = prefix

\* device.split('/').pop()
LastSegment(s) ==
    LET slashes == {k \in 1..Len(s) : SubSeq(s, k, k) = "/"} IN
    IF slashes = {} THEN s
    ELSE SubSeq(s, (CHOOSE k \in slashes : \A j \in slashes : j <= k) + 1, Len(s))

DecimalDigits == {"0", "1", "2", "3", "4", "5", "6", "7", "8", "9"}

HexDigits == DecimalDigits \cup {"a", "b", "c", "d", "e", "f", "A", "B", "C", "D", "E", "F"}

DigitValue(c) ==
    CASE c = "0" -> 0 [] c = "1" -> 1 [] c = "2" -> 2 [] c = "3" -> 3 [] c = "4" -> 4
      [] c = "5" -> 5 [] c = "6" -> 6 [] c = "7" -> 7 [] c = "8" -> 8 [] c = "9" -> 9
      [] c \in {"a", "A"} -> 10 [] c \in {"b", "B"} -> 11 [] c \in {"c", "C"} -> 12
      [] c \in {"d", "D"} -> 13 [] c \in {"e", "E"} -> 14 [] c \in {"f", "F"} -> 15

\* How many characters at the start of s are digits of the given set.
RECURSIVE LeadingDigits(_, _)
LeadingDigits(s, digits) ==
    IF s # "" /\ SubSeq(s, 1, 1) \in digits
    THEN 1 + LeadingDigits(SubSeq(s, 2, Len(s)), digits)
    ELSE 0

\* The value of a string of digits in the given radix.
RECURSIVE DigitsValue(_, _)
DigitsValue(s, radix) ==
    IF s = "" THEN 0
    ELSE DigitsValue(SubSeq(s, 1, Len(s) - 1), radix) * radix
            + DigitValue(SubSeq(s, Len(s), Len(s)))

NaN == [nan |-> TRUE, value |-> 0]

Number(v) == [nan |-> FALSE, value |-> v]

\* parseInt(string) with no radix: leading blanks, a sign, then the longest
\* run of digits (hexadecimal after 0x); NaN where there is no digit.
parseInt(string) ==
    LET t == TrimStart(string)
        signed == StartsWith(t, "-") \/ StartsWith(t, "+")
        u == IF signed THEN SubSeq(t, 2, Len(t)) ELSE t
        hex == StartsWith(u, "0x") \/ StartsWith(u, "0X")
        body == IF hex THEN SubSeq(u, 3, Len(u)) ELSE u
        n == LeadingDigits(body, IF hex THEN HexDigits ELSE DecimalDigits)
        magnitude == DigitsValue(SubSeq(body, 1, n), IF hex THEN 16 ELSE 10)
    IN  IF n = 0 THEN NaN
        ELSE Number(IF StartsWith(t, "-") THEN 0 - magnitude ELSE magnitude)

\* /^\d{6}$/.test(token)
MatchesSixDigits(token) ==
    /\ Len(token) = 6
    /\ \A k \in 1..6 : SubSeq(token, k, k) \in DecimalDigits

\* promptInput(message, defaultValue), by what the operator types.
promptInput(answer, defaultValue) == OrElse(OrElse(Trim(answer), defaultValue), "")

\* A menu that hands back whatever is at the typed position.
promptChoice_NoFallback(answer, choices) ==
    LET index == parseInt(answer).value - 1 IN
    IF index >= 0 /\ index < Len(choices) THEN choices[index + 1].value ELSE answer

\* promptChoice(message, choices), by what the operator types.
promptChoice(answer, choices) ==
    LET parsed == parseInt(answer)
        index == parsed.value - 1
    IN  IF ~parsed.nan /\ index >= 0 /\ index < Len(choices)
        THEN choices[index + 1].value
        ELSE choices[1].value

----------------------------------------------------------------------------
(* authenticateWithMfa(): discovery, device selection, token prompt, exchange *)

\* Serial numbers ListMFADevices may return: two virtual devices, one hardware.
Devices ==
    {"arn:aws:iam::111122223333:mfa/alice",
     "arn:aws:iam::111122223333:mfa/alice-phone",
     "GAHT12345678"}

DeviceLists ==
    {l \in UNION {[1..n -> Devices] : n \in 0..MaxDevices} :
        \A j, k \in DOMAIN l : j # k => l[j] # l[k]}

\* What sts:GetCallerIdentity answers: it fails, or gives an identity.
IdentityAnswers ==
    { [ok |-> FALSE, Arn |-> "", UserId |-> "", Account |-> ""],
      [ok |-> TRUE, Arn |-> "", UserId |-> "", Account |-> ""],
      [ok |-> TRUE, Arn |-> "arn:aws:iam::111122223333:user/alice",
       UserId |-> "AIDAEXAMPLE", Account |-> "111122223333"] }

\* What iam:ListMFADevices answers: it fails, or gives the devices.
ListAnswers ==
    {[ok |-> FALSE, devices |-> << >>]} \cup {[ok |-> TRUE, devices |-> l] : l \in DeviceLists}

\* What the provider answers to one discoverMfaDevices(); where the identity
\* has no Arn the list is never asked for.
DiscoveryAnswers ==
    {a \in [identity : IdentityAnswers, list : ListAnswers] :
        (~a.identity.ok \/ a.identity.Arn = "") => a.list = [ok |-> FALSE, devices |-> << >>]}

ListRequested(a) == a.identity.ok /\ a.identity.Arn # ""

discoverMfaDevices(a) ==
    IF ~a.identity.ok THEN << >>
    ELSE IF a.identity.Arn = "" THEN << >>
    ELSE IF ~a.list.ok THEN << >>
    ELSE a.list.devices

\* What the operator may type at the three prompts.
SerialAnswers ==
    {"", "alice",
     "arn:aws:iam::111122223333:mfa/alice",
     "  arn:aws:iam::111122223333:mfa/alice ",
     "arn:aws:iam::111122223333:role/admin",
     "arn:aws:sts::111122223333:mfa/alice"}

MenuAnswers == {"1", "2", "3", "0", "-1", "99", "", "abc", "2abc", " 2", "0x2"}

TokenAnswers == {"123456", " 123456 ", "12345", "1234567", "abcdef", "12345a", ""}

StartFlow ==
    [pc |-> "detect", detected |-> "", devices |-> << >>, serial |-> "", token |-> "",
     identity |-> 0, lists |-> 0, exchanges |-> 0,
     serialPrompts |-> 0, serialAnswer |-> "", menus |-> 0, menuAnswer |-> "",
     tokenPrompts |-> 0, tokenAnswer |-> "", outcome |-> None,
     provider |-> [identity |-> [ok |-> FALSE, Arn |-> "", UserId |-> "", Account |-> ""],
                   list |-> [ok |-> FALSE, devices |-> << >>]]]

InitFlow ==
    /\ Constructed
    /\ root = "dc"
    /\ fn = Off
    /\ tasks = Off
    /\ mig = Off
    /\ scan = Off
    /\ conn = Off
    /\ dms = Off
    /\ stack = Off
    /\ flow = StartFlow

\* detectMfaConfig: `await this.discoverMfaDevices()`
DetectDiscovers(a) ==
    /\ flow.pc = "detect"
    /\ a \in DiscoveryAnswers
    /\ LET mfaDevices == discoverMfaDevices(a) IN
        flow' = [flow EXCEPT
                    !.identity = @ + 1,
                    !.lists = @ + (IF ListRequested(a) THEN 1 ELSE 0),
                    !.detected = IF Len(mfaDevices) > 0 THEN mfaDevices[1] ELSE "",
                    !.pc = IF Len(mfaDevices) > 0 THEN "config" ELSE "fallback"]
    /\ UNCHANGED notFlow

\* detectMfaConfig: the fallback GetCallerIdentity and the serial built from it
DetectFallback(response) ==
    /\ flow.pc = "fallback"
    /\ response \in IdentityAnswers
    /\ flow' = [flow EXCEPT
                    !.identity = @ + 1,
                    !.detected =
                        IF response.ok /\ response.Arn # "" /\ response.UserId # ""
                        THEN "arn:aws:iam::" \o response.Account \o ":mfa/"
                                \o LastSegment(response.Arn)
                        ELSE "",
                    !.pc = "config"]
    /\ UNCHANGED notFlow

\* promptMfaConfig: `await this.discoverMfaDevices()` and the three branches
ConfigDiscovers(a) ==
    /\ flow.pc = "config"
    /\ a \in DiscoveryAnswers
    /\ LET availableDevices == discoverMfaDevices(a) IN
        flow' = [flow EXCEPT
                    !.identity = @ + 1,
                    !.lists = @ + (IF ListRequested(a) THEN 1 ELSE 0),
                    !.provider = a,
                    !.devices = availableDevices,
                    !.serial = IF Len(availableDevices) = 1 THEN availableDevices[1] ELSE "",
                    !.pc = IF Len(availableDevices) = 0 THEN "manual"
                           ELSE IF Len(availableDevices) = 1 THEN "token"
                           ELSE "menu"]
    /\ UNCHANGED notFlow

\* The condition of the manual entry loop.
SerialRejected(mfaSerial) == mfaSerial = "" \/ ~StartsWith(mfaSerial, "arn:aws:iam::")

\* promptMfaConfig: one turn of the manual entry loop
ManualEntry(answer) ==
    /\ flow.pc = "manual"
    /\ flow.serialPrompts < MaxPrompts
    /\ answer \in SerialAnswers
    /\ LET mfaSerial == promptInput(answer, flow.detected) IN
        flow' = [flow EXCEPT
                    !.serialPrompts = @ + 1,
                    !.serialAnswer = answer,
                    !.serial = mfaSerial,
                    !.pc = IF SerialRejected(mfaSerial) THEN "manual" ELSE "token"]
    /\ UNCHANGED notFlow

\* promptMfaConfig: the menu entries built from the devices
Choices(availableDevices) ==
    [k \in DOMAIN availableDevices |->
        [name |-> LastSegment(availableDevices[k]) \o " (" \o availableDevices[k] \o ")",
         value |-> availableDevices[k]]]

\* promptMfaConfig: `await promptChoice('Select MFA Device:', choices)`
MenuChoice(answer) ==
    /\ flow.pc = "menu"
    /\ answer \in MenuAnswers
    /\ flow' = [flow EXCEPT
                    !.menus = @ + 1,
                    !.menuAnswer = answer,
                    !.serial = promptChoice(answer, Choices(flow.devices)),
                    !.pc = "token"]
    /\ UNCHANGED notFlow

\* A token loop that tests the length only.
TokenRejected_LengthOnly(token) == token = "" \/ Len(token) # 6

\* The condition of the token loop.
TokenRejected(token) == token = "" \/ Len(token) # 6 \/ ~MatchesSixDigits(token)

\* promptMfaToken: one turn of the loop
TokenEntry(answer) ==
    /\ flow.pc = "token"
    /\ flow.tokenPrompts < MaxPrompts
    /\ answer \in TokenAnswers
    /\ LET token == promptInput(answer, "") IN
        flow' = [flow EXCEPT
                    !.tokenPrompts = @ + 1,
                    !.tokenAnswer = answer,
                    !.token = token,
                    !.pc = IF TokenRejected(token) THEN "token" ELSE "exchange"]
    /\ UNCHANGED notFlow

\* getSessionTokenWithMfa: GetSessionToken answers with credentials
ExchangeReturns ==
    /\ flow.pc = "exchange"
    /\ flow' = [flow EXCEPT
                    !.exchanges = @ + 1,
                    !.outcome = Returned(Credential(1)),
                    !.pc = "returned"]
    /\ UNCHANGED notFlow

\* A flow that asks for another code when the exchange is rejected.
ExchangeThrows_AsksAgain(e) ==
    /\ flow.pc = "exchange"
    /\ e \in StsErrors
    /\ flow' = [flow EXCEPT
                    !.exchanges = @ + 1,
                    !.tokenPrompts = 0,
                    !.pc = "token"]
    /\ UNCHANGED notFlow

\* getSessionTokenWithMfa: GetSessionToken is rejected; the catch block
\* translates the error and authenticateWithMfa() throws it on.
ExchangeThrows(e) ==
    /\ flow.pc = "exchange"
    /\ e \in StsErrors
    /\ flow' = [flow EXCEPT
                    !.exchanges = @ + 1,
                    !.outcome = Thrown(TranslateStsError(e)),
                    !.pc = "thrown"]
    /\ UNCHANGED notFlow

NextFlow ==
    \/ \E a \in DiscoveryAnswers : DetectDiscovers(a)
    \/ \E response \in IdentityAnswers : DetectFallback(response)
    \/ \E a \in DiscoveryAnswers : ConfigDiscovers(a)
    \/ \E answer \in SerialAnswers : ManualEntry(answer)
    \/ \E answer \in MenuAnswers : MenuChoice(answer)
    \/ \E answer \in TokenAnswers : TokenEntry(answer)
    \/ ExchangeReturns
    \/ \E e \in StsErrors : ExchangeThrows(e)

SpecFlow == InitFlow /\ [][NextFlow]_vars

----------------------------------------------------------------------------
(* Two callWithMfaRetry calls on one DatabaseConnector that overlap in time *)

Tasks == {"t1", "t2"}

InitOverlap ==
    /\ Constructed
    /\ root = "dc"
    /\ fn = Off
    /\ flow = Off
    /\ mig = Off
    /\ scan = Off
    /\ conn = Off
    /\ dms = Off
    /\ stack = Off
    /\ tasks = [t \in Tasks |->
                    [pc |-> "idle", first |-> None, credentials |-> NoCredentials,
                     invocations |-> 0, challenges |-> 0, swaps |-> 0, result |-> None]]

\* A caller enters callWithMfaRetry(operation): `return await operation()`.
TaskCall(t) ==
    /\ tasks[t].pc = "idle"
    /\ tasks' = [tasks EXCEPT ![t].pc = "op1", ![t].invocations = 1]
    /\ UNCHANGED <<notTasks, mfaAuthenticated, clients, env, issued, started, failed>>

\* The first operation() of a call settles; the catch block tests the flag.
TaskFirstSettles(t, o) ==
    /\ tasks[t].pc = "op1"
    /\ o \in Outcomes
    /\ IF o.kind = "value"
       THEN /\ tasks' = [tasks EXCEPT ![t].first = o, ![t].result = o, ![t].pc = "done"]
            /\ UNCHANGED started
       ELSE IF ShouldAuthenticate(o.error, "dc")
       THEN /\ tasks' = [tasks EXCEPT ![t].first = o, ![t].challenges = @ + 1,
                                       ![t].pc = "auth"]
            /\ started' = [started EXCEPT !["dc"] = @ + 1]
       ELSE /\ tasks' = [tasks EXCEPT ![t].first = o, ![t].result = o, ![t].pc = "done"]
            /\ UNCHANGED started
    /\ UNCHANGED <<notTasks, mfaAuthenticated, clients, env, issued, failed>>

\* authenticateWithMfa() of a call throws.
TaskAuthThrows(t, e) ==
    /\ tasks[t].pc = "auth"
    /\ e \in StsErrors
    /\ tasks' = [tasks EXCEPT ![t].result = Thrown(TranslateStsError(e)), ![t].pc = "done"]
    /\ failed' = [failed EXCEPT !["dc"] = @ + 1]
    /\ UNCHANGED <<notTasks, mfaAuthenticated, clients, env, issued, started>>

\* authenticateWithMfa() of a call returns credentials.
TaskAuthReturns(t) ==
    /\ tasks[t].pc = "auth"
    /\ issued' = issued + 1
    /\ tasks' = [tasks EXCEPT ![t].credentials = Credential(issued + 1), ![t].pc = "swap"]
    /\ UNCHANGED <<notTasks, mfaAuthenticated, clients, env, started, failed>>

\* applyCredentials, the new clients and `this.mfaAuthenticated = true`: no
\* await lies between them.
TaskSwap(t) ==
    /\ tasks[t].pc = "swap"
    /\ env' = applyCredentials(tasks[t].credentials)
    /\ clients' = [clients EXCEPT !["dc"] = RecreateClients("dc", tasks[t].credentials, issued)]
    /\ mfaAuthenticated' = [mfaAuthenticated EXCEPT !["dc"] = TRUE]
    /\ tasks' = [tasks EXCEPT ![t].swaps = @ + 1, ![t].invocations = @ + 1, ![t].pc = "op2"]
    /\ UNCHANGED <<notTasks, issued, started, failed>>

\* The second operation() of a call settles.
TaskSecondSettles(t, o) ==
    /\ tasks[t].pc = "op2"
    /\ o \in Outcomes
    /\ tasks' = [tasks EXCEPT ![t].result = o, ![t].pc = "done"]
    /\ UNCHANGED <<notTasks, mfaAuthenticated, clients, env, issued, started, failed>>

NextOverlap ==
    \/ \E t \in Tasks : TaskCall(t)
    \/ \E t \in Tasks : \E o \in Outcomes : TaskFirstSettles(t, o)
    \/ \E t \in Tasks : \E e \in StsErrors : TaskAuthThrows(t, e)
    \/ \E t \in Tasks : TaskAuthReturns(t)
    \/ \E t \in Tasks : TaskSwap(t)
    \/ \E t \in Tasks : \E o \in Outcomes : TaskSecondSettles(t, o)

SpecOverlap == InitOverlap /\ [][NextOverlap]_vars

----------------------------------------------------------------------------
(* PgMigrationManager: performPgMigration, testConnections,                 *)
(* getMigrationStats, cleanup                                               *)

SourcePort == 5434

TargetPort == 5433

Ports == {SourcePort, TargetPort}

\* The security groups of the databases (database.securityGroupIds).
Groups == 1..MaxGroups

MigCommands == {"performPgMigration", "testConnections", "getMigrationStats"}

\* rules, preexisting: the groups that hold the ingress rule for the bastion,
\* now and when the command began.  signalled, recorded, authorized,
\* attempted: the processes kill() was called on, the ports pushed on
\* activeTunnels, the groups Authorize succeeded for and the groups a Revoke
\* was sent for, since the command began.
StartMig(command, sourceType, preexisting) ==
    [pc |-> IF command = "performPgMigration" THEN "confirm" ELSE "discover",
     command |-> command, sourceType |-> sourceType, opening |-> SourcePort,
     activeTunnels |-> << >>, procs |-> [p \in Ports |-> "none"],
     signalled |-> [p \in Ports |-> FALSE], recorded |-> {},
     rules |-> preexisting, preexisting |-> preexisting,
     addedSecurityGroupRules |-> << >>, pending |-> << >>, authorized |-> {},
     cursor |-> 0, attempted |-> {},
     dumpFile |-> "absent", error |-> "", events |-> << >>]

InitMig ==
    /\ Constructed
    /\ root = "pg"
    /\ fn = Off
    /\ flow = Off
    /\ tasks = Off
    /\ scan = Off
    /\ conn = Off
    /\ dms = Off
    /\ stack = Off
    /\ mig \in {StartMig(c, t, before) : c \in MigCommands,
                                      t \in {"aws-managed", "external"},
                                      before \in SUBSET Groups}

\* `const confirm = await promptConfirmation(...)`
Confirm(confirm) ==
    /\ mig.pc = "confirm"
    /\ confirm \in BOOLEAN
    /\ mig' = [mig EXCEPT !.pc = IF confirm THEN "discover" ELSE "done"]
    /\ UNCHANGED notMig

\* performPgMigration: discoverDatabase for the source and for the target.
\* testConnections, getMigrationStats: discoverDatabase for the source.
Discover(found) ==
    /\ mig.pc = "discover"
    /\ found \in BOOLEAN
    /\ mig' = IF found
              THEN [mig EXCEPT !.pc = IF mig.sourceType # "external" THEN "lookup"
                                      ELSE IF mig.command = "performPgMigration"
                                           THEN "dump" ELSE "discoverTarget",
                               !.opening = SourcePort]
              ELSE [mig EXCEPT !.pc = "cleanup", !.error = "Database not found"]
    /\ UNCHANGED notMig

\* testConnections, getMigrationStats: discoverDatabase for the target, with
\* the source tunnel (if any) open.
DiscoverTarget(found) ==
    /\ mig.pc = "discoverTarget"
    /\ mig' = IF found
              THEN [mig EXCEPT !.pc = "lookup", !.opening = TargetPort]
              ELSE [mig EXCEPT !.pc = "cleanup", !.error = "Database not found"]
    /\ UNCHANGED notMig

\* setupTunnel throws before a tunnel is recorded: in phase 1 the error leaves
\* executeSequentialMigration; in phase 2 the finally block unlinks the dump
\* file first.
SetupFails(m, message) ==
    [m EXCEPT !.error = message,
              !.dumpFile = IF m.opening = TargetPort THEN "absent" ELSE @,
              !.pc = "cleanup"]

\* setupTunnel: `await this.getBastionInstanceId(environment)`
TunnelLookup(found) ==
    /\ mig.pc = "lookup"
    /\ found \in BOOLEAN
    /\ mig' = IF found THEN [mig EXCEPT !.pc = "access"]
              ELSE SetupFails(mig, "No bastion host found")
    /\ UNCHANGED notMig

\* createTunnelProcess: spawn('aws', ['ssm', 'start-session', ...])
SpawnProcess(m) == [m EXCEPT !.procs[m.opening] = "running", !.pc = "waiting"]

\* setupTunnel: a database without security groups gets its tunnel at once;
\* otherwise configureTunnelAccess asks for the bastion's security group and
\* throws where there is none.
TunnelAccess(access) ==
    /\ mig.pc = "access"
    /\ mig' = CASE access = "no security groups" -> SpawnProcess(mig)
                [] access = "no bastion group" ->
                      SetupFails(mig, "No security groups found for bastion instance")
                [] OTHER -> [mig EXCEPT !.pc = "authorize",
                                        !.pending = [k \in 1..MaxGroups |-> k]]
    /\ UNCHANGED notMig

AccessOutcomes == {"no security groups", "no bastion group", "bastion group found"}
AuthorizeAnswers == {"added", "already exists", "error"}

\* A loop that records the rule whatever Authorize answered.
RecordRule_Always(added, group, answer) == Append(added, group)

\* this.addedSecurityGroupRules.push(...) after Authorize returned; a throw
\* ('already exists' or any other) skips it.
RecordRule(added, group, answer) ==
    IF answer = "added" THEN Append(added, group) ELSE added

\* configureTunnelAccess: AuthorizeSecurityGroupIngress for the next group;
\* after the last one createTunnelProcess spawns the tunnel.
AuthorizeRule(answer) ==
    /\ mig.pc = "authorize"
    /\ mig.pending # << >>
    /\ LET group == Head(mig.pending) IN
        /\ answer = "added" => group \notin mig.rules
        /\ answer = "already exists" => group \in mig.rules
        /\ LET m == [mig EXCEPT
                       !.addedSecurityGroupRules = RecordRule(@, group, answer),
                       !.rules = IF answer = "added" THEN @ \cup {group} ELSE @,
                       !.authorized = IF answer = "added" THEN @ \cup {group} ELSE @,
                       !.pending = Tail(@)]
           IN mig' = IF m.pending = << >> THEN SpawnProcess(m) ELSE m
    /\ UNCHANGED notMig

\* The session behind a tunnel ends on its own.
TunnelExits(port) ==
    /\ port \in Ports
    /\ mig.procs[port] = "running"
    /\ mig' = [mig EXCEPT !.procs[port] = "exited"]
    /\ UNCHANGED notMig

\* `if (tunnelProcess && !tunnelProcess.killed) tunnelProcess.kill('SIGTERM')`
Kill(m, port) ==
    IF m.procs[port] \in {"none", "killed"} THEN m
    ELSE [m EXCEPT !.procs[port] = IF @ = "running" THEN "killed" ELSE @,
                   !.signalled[port] = TRUE]

\* Where a command goes on when its tunnel is ready.
AfterTunnel(command, port) ==
    IF command = "performPgMigration"
    THEN (IF port = SourcePort THEN "dump" ELSE "restore")
    ELSE (IF port = SourcePort THEN "discoverTarget" ELSE "test")

\* setupTunnel: the port answers, and the tunnel is pushed on activeTunnels;
\* or it never does, and the process is killed and the setup throws.
TunnelSettles(tunnelReady) ==
    /\ mig.pc = "waiting"
    /\ tunnelReady \in BOOLEAN
    /\ tunnelReady => mig.procs[mig.opening] = "running"
    /\ mig' = IF tunnelReady
              THEN [mig EXCEPT
                        !.activeTunnels = Append(@, [localPort |-> mig.opening]),
                        !.recorded = @ \cup {mig.opening},
                        !.events = Append(@, IF mig.opening = SourcePort
                                             THEN "source opened" ELSE "target opened"),
                        !.pc = AfterTunnel(mig.command, mig.opening)]
              ELSE SetupFails(Kill(mig, mig.opening), "Tunnel failed to establish")
    /\ UNCHANGED notMig

\* A finally block that leaves the tunnel as it is.
CloseTunnel_Forgotten(m, port) == m

\* The finally blocks of executeSequentialMigration: SIGTERM to the tunnel
\* process, and the tunnel filtered out of activeTunnels by its local port.
CloseTunnel(m, port) ==
    LET Others(t) == t.localPort # port IN
    [Kill(m, port) EXCEPT
              !.activeTunnels = SelectSeq(m.activeTunnels, Others),
              !.events = Append(@, IF port = SourcePort
                                   THEN "source closed" ELSE "target closed")]

\* How pg_dump ends: it exits 0, or fails after or before it wrote the file.
DumpOutcomes == {"dumped", "failed, file written", "failed, no file"}

\* Phase 1: dumpToFile settles, the finally block closes the source tunnel
\* where there is one, and phase 2 begins unless the dump threw.
Dump(outcome) ==
    /\ mig.pc = "dump"
    /\ outcome \in DumpOutcomes
    /\ LET dumped == [mig EXCEPT
                        !.events = Append(@, "dump"),
                        !.dumpFile = IF outcome = "failed, no file" THEN "absent" ELSE "present"]
           closed == IF mig.sourceType = "external" THEN dumped
                     ELSE CloseTunnel(dumped, SourcePort)
       IN  mig' = IF outcome = "dumped"
                  THEN [closed EXCEPT !.pc = "lookup", !.opening = TargetPort]
                  ELSE [closed EXCEPT !.pc = "cleanup", !.error = "pg_dump failed"]
    /\ UNCHANGED notMig

\* Phase 2: restoreFromFile settles, the finally block closes the target
\* tunnel and unlinks the dump file.
Restore(restored) ==
    /\ mig.pc = "restore"
    /\ restored \in BOOLEAN
    /\ LET closed == CloseTunnel([mig EXCEPT !.events = Append(@, "restore")], TargetPort) IN
        mig' = [closed EXCEPT !.dumpFile = "absent",
                              !.error = IF restored THEN "" ELSE "psql restore failed",
                              !.pc = "cleanup"]
    /\ UNCHANGED notMig

\* testConnections: testConnection for source and target; getMigrationStats:
\* the table lists and the row counts.  Both tunnels are open meanwhile.
TestThroughTunnels(succeeded) ==
    /\ mig.pc = "test"
    /\ mig' = [mig EXCEPT !.pc = "cleanup",
                          !.error = IF succeeded THEN "" ELSE "Connection test failed"]
    /\ UNCHANGED notMig

RECURSIVE KillAll(_, _)
KillAll(m, tunnels) ==
    IF tunnels = << >> THEN m
    ELSE KillAll(Kill(m, Head(tunnels).localPort), Tail(tunnels))

\* cleanup(): every tunnel still on the list is killed and the list emptied.
CleanupTunnels ==
    /\ mig.pc = "cleanup"
    /\ mig' = [KillAll(mig, mig.activeTunnels) EXCEPT
                  !.activeTunnels = << >>,
                  !.cursor = 0,
                  !.pc = "revoke"]
    /\ UNCHANGED notMig

\* cleanup(): RevokeSecurityGroupIngress for the next added rule; a failure
\* is printed and the loop goes on.
RevokeRule(revoked) ==
    /\ mig.pc = "revoke"
    /\ mig.cursor < Len(mig.addedSecurityGroupRules)
    /\ revoked \in BOOLEAN
    /\ LET group == mig.addedSecurityGroupRules[mig.cursor + 1] IN
        mig' = [mig EXCEPT !.cursor = @ + 1,
                           !.attempted = @ \cup {group},
                           !.rules = IF revoked THEN @ \ {group} ELSE @]
    /\ UNCHANGED notMig

\* cleanup(): `this.addedSecurityGroupRules = []`
CleanupDone ==
    /\ mig.pc = "revoke"
    /\ mig.cursor = Len(mig.addedSecurityGroupRules)
    /\ mig' = [mig EXCEPT !.addedSecurityGroupRules = << >>, !.cursor = 0, !.pc = "done"]
    /\ UNCHANGED notMig

NextMig ==
    \/ \E confirm \in BOOLEAN : Confirm(confirm)
    \/ \E found \in BOOLEAN : Discover(found)
    \/ \E found \in BOOLEAN : DiscoverTarget(found)
    \/ \E found \in BOOLEAN : TunnelLookup(found)
    \/ \E access \in AccessOutcomes : TunnelAccess(access)
    \/ \E answer \in AuthorizeAnswers : AuthorizeRule(answer)
    \/ \E port \in Ports : TunnelExits(port)
    \/ \E tunnelReady \in BOOLEAN : TunnelSettles(tunnelReady)
    \/ \E outcome \in DumpOutcomes : Dump(outcome)
    \/ \E restored \in BOOLEAN : Restore(restored)
    \/ \E succeeded \in BOOLEAN : TestThroughTunnels(succeeded)
    \/ CleanupTunnels
    \/ \E revoked \in BOOLEAN : RevokeRule(revoked)
    \/ CleanupDone

SpecMig == InitMig /\ [][NextMig]_vars

----------------------------------------------------------------------------
(* DynamoDB read commands: scanTable, queryTable, getItem *)

\* A value as the document client returns it: a string, null, or a map whose
\* entries keep their order (a JavaScript object).
Str(s) == [t |-> "S", s |-> s]
Null == [t |-> "null"]
Obj(entries) == [t |-> "M", m |-> entries]
List(elements) == [t |-> "L", l |-> elements]

sensitiveFields ==
    <<"encrypted_api_key", "encrypted_secret_key", "dek_encrypted", "api_key",
      "secret_key", "passphrase", "password", "token", "access_token",
      "refresh_token">>

\* if (filteredItem[field]): every string but the empty one, every object and
\* array; not null.
Truthy(value) ==
    CASE value.t = "S" -> value.s # ""
      [] value.t = "null" -> FALSE
      [] OTHER -> TRUE

\* { ...item } with filteredItem[field] = '[HIDDEN]' for each field of the
\* list that the item has with a truthy value.
filterItem(item) ==
    Obj([i \in DOMAIN item.m |->
            IF /\ \E j \in DOMAIN sensitiveFields : sensitiveFields[j] = item.m[i].k
               /\ Truthy(item.m[i].v)
            THEN [k |-> item.m[i].k, v |-> Str("[HIDDEN]")]
            ELSE item.m[i]])

filterSensitiveFields(items) == [i \in DOMAIN items |-> filterItem(items[i])]

\* JSON.stringify(value, null, 2): one entry per line, two blanks per level.
\* (No string of the model needs escaping.)
RECURSIVE Blanks(_)
Blanks(n) == IF n = 0 THEN "" ELSE "  " \o Blanks(n - 1)

RECURSIVE Stringify(_, _)
RECURSIVE StringifyEntries(_, _, _)
RECURSIVE StringifyElements(_, _, _)
StringifyEntries(entries, i, level) ==
    IF i > Len(entries) THEN ""
    ELSE Blanks(level) \o "\"" \o entries[i].k \o "\": "
           \o Stringify(entries[i].v, level)
           \o (IF i < Len(entries) THEN ",\n" ELSE "\n")
           \o StringifyEntries(entries, i + 1, level)
StringifyElements(elements, i, level) ==
    IF i > Len(elements) THEN ""
    ELSE Blanks(level) \o Stringify(elements[i], level)
           \o (IF i < Len(elements) THEN ",\n" ELSE "\n")
           \o StringifyElements(elements, i + 1, level)
Stringify(value, level) ==
    CASE value.t = "S" -> "\"" \o value.s \o "\""
      [] value.t = "null" -> "null"
      [] value.t = "M" ->
            IF Len(value.m) = 0 THEN "{}"
            ELSE "{\n" \o StringifyEntries(value.m, 1, level + 1) \o Blanks(level) \o "}"
      [] value.t = "L" ->
            IF Len(value.l) = 0 THEN "[]"
            ELSE "[\n" \o StringifyElements(value.l, 1, level + 1) \o Blanks(level) \o "]"

\* What the tables of the model hold.
Secret == "sk-live-1"
Scalars == {Str("u-1"), Str(Secret), Str(""), Null}
NestedValues == {Obj(<<[k |-> key, v |-> Str(Secret)]>>) : key \in {"api_key", "note"}}
ItemValues == Scalars \cup NestedValues
Keys == {"user_id", "api_key", "exchange"}
Entries == {[k |-> key, v |-> value] : key \in Keys, value \in ItemValues}
\* An item has one attribute, or a key attribute and one more.
Items ==
    {Obj(<<e>>) : e \in Entries}
        \cup {Obj(<<[k |-> "user_id", v |-> Str("u-1")], e>>) :
                 e \in {x \in Entries : x.k # "user_id"}}
ItemLists == UNION {[1..n -> Items] : n \in 0..MaxItems}

ReadCommands == {"scanTable", "queryTable", "getItem"}

StartScan(command) ==
    [pc |-> "sent", command |-> command, items |-> <<>>, output |-> <<>>,
     result |-> "none"]

InitScan ==
    /\ Constructed
    /\ root = "ddb"
    /\ fn = Off
    /\ flow = Off
    /\ tasks = Off
    /\ mig = Off
    /\ conn = Off
    /\ dms = Off
    /\ stack = Off
    /\ scan \in {StartScan(command) : command \in ReadCommands}

\* const response = await this.docClient.send(command): Items (scan, query)
\* or Item (get-item; none is the empty list here).
ScanResponds(items) ==
    /\ scan.pc = "sent"
    /\ scan.command = "getItem" => Len(items) <= 1
    /\ scan' = [scan EXCEPT !.pc = "received", !.items = items]
    /\ UNCHANGED notScan

\* The send throws: the command rethrows `Failed to ...`.
ScanFails ==
    /\ scan.pc = "sent"
    /\ scan' = [scan EXCEPT !.pc = "done", !.result = "error"]
    /\ UNCHANGED notScan

\* The rest of the command: nothing found, or filter and print.
ScanShows ==
    /\ scan.pc = "received"
    /\ scan' = [scan EXCEPT
          !.pc = "done",
          !.result = "shown",
          !.output =
              IF Len(scan.items) = 0
              THEN <<IF scan.command = "getItem" THEN "Item not found" ELSE "No items found">>
              ELSE IF scan.command = "getItem"
                   THEN <<"Item found (sensitive fields hidden):",
                          Stringify(filterSensitiveFields(scan.items)[1], 0)>>
                   ELSE <<"Found items (sensitive fields hidden):",
                          Stringify(List(filterSensitiveFields(scan.items)), 0)>>]
    /\ UNCHANGED notScan

NextScan ==
    \/ \E items \in ItemLists : ScanResponds(items)
    \/ ScanFails
    \/ ScanShows

SpecScan == InitScan /\ [][NextScan]_vars

----------------------------------------------------------------------------
(* DatabaseConnector: createTunnel, connectWithPassword, the password command *)

\* localPort: number = 5433, and `port <= startPort + 10`.
DefaultPort == 5433
SearchSpan == 10

LocalPorts == {DefaultPort, DefaultPort + 1}

\* The secret as Secrets Manager holds it; secretValue.password || secretValue.PASSWORD.
Secrets ==
    {[password |-> "s3cret", PASSWORD |-> ""], [password |-> "", PASSWORD |-> "S3CRET"]}
PasswordOf(secretValue) == OrElse(secretValue.password, secretValue.PASSWORD)

ConnCommands == {"createTunnel", "connectWithPassword", "getDatabasePassword"}

\* The CLI command that runs the method.
CliName(command) ==
    CASE command = "createTunnel" -> "tunnel"
      [] command = "connectWithPassword" -> "psql"
      [] OTHER -> "password"

\* The awaited steps of each command, in program order.
Steps(command) ==
    CASE command = "createTunnel" -> <<"lookup", "info", "port", "spawn">>
      [] command = "connectWithPassword" -> <<"info", "secret", "port", "lookup", "spawn">>
      [] OTHER -> <<"secret", "return">>

StepAfter(command, step) ==
    LET steps == Steps(command)
        i == CHOOSE k \in DOMAIN steps : steps[k] = step
    IN steps[i + 1]

StartConn(command, localPort) ==
    [pc |-> Steps(command)[1], command |-> command, localPort |-> localPort,
     password |-> "", output |-> <<>>, observed |-> "none", probes |-> <<>>,
     child |-> "none", data |-> 0, tunnelReady |-> FALSE, timers |-> 0,
     fallback |-> FALSE, psql |-> "none", spawns |-> 0, PGPASSWORD |-> "",
     promise |-> "none", settledAt |-> 0, error |-> ""]

InitConn ==
    /\ Constructed
    /\ root = "dc"
    /\ fn = Off
    /\ flow = Off
    /\ tasks = Off
    /\ mig = Off
    /\ scan = Off
    /\ dms = Off
    /\ stack = Off
    /\ conn \in {StartConn(command, localPort) :
                    command \in ConnCommands, localPort \in LocalPorts}

PortInUse(localPort) ==
    "Port " \o ToString(localPort) \o " is in use. Please use a different port with -p option."

\* A throw inside the method: connectWithPassword logs it in its catch and
\* rethrows, createTunnel just throws.
ConnThrows(c, message) ==
    [c EXCEPT !.pc = "ended", !.promise = "rejected", !.error = message,
              !.settledAt = c.spawns,
              !.output = IF c.command = "connectWithPassword"
                         THEN Append(@, "Error setting up database connection: " \o message)
                         ELSE @]

\* spawn('aws', ['ssm', 'start-session', ...]) and what follows it at once.
SpawnTunnel(c) ==
    IF c.command = "createTunnel"
    THEN [c EXCEPT !.pc = "started", !.child = "running", !.promise = "resolved",
                   !.output = Append(@, "Starting tunnel...")]
    ELSE [c EXCEPT !.pc = "waiting", !.child = "running", !.promise = "pending",
                   !.fallback = TRUE,
                   !.output = Append(@, "   Waiting for tunnel to establish...")]

\* The await returned: go on with the next step of the method.
Advance(c) ==
    LET step == StepAfter(c.command, c.pc)
    IN CASE step = "spawn" -> SpawnTunnel(c)
         [] step = "return" -> [c EXCEPT !.pc = "ended", !.promise = "resolved"]
         [] OTHER -> [c EXCEPT !.pc = step]

\* await this.getBastionInstanceId(environment)
ConnLookup(found) ==
    /\ conn.pc = "lookup"
    /\ conn' = IF found
               THEN Advance([conn EXCEPT !.output =
                       IF conn.command = "connectWithPassword"
                       THEN Append(@, "Creating database tunnel...") ELSE @])
               ELSE ConnThrows(conn, "No bastion host found for environment: dev")
    /\ UNCHANGED notConn

\* await this.getDatabaseInfo(environment, database)
ConnInfo(found) ==
    /\ conn.pc = "info"
    /\ conn' = IF found
               THEN Advance([conn EXCEPT !.output =
                       IF conn.command = "createTunnel"
                       THEN @ \o <<"Connection details:",
                                   "   Local port: " \o ToString(conn.localPort),
                                   "Checking local port availability...">>
                       ELSE @])
               ELSE ConnThrows(conn, "Database info not found for platform in environment: dev")
    /\ UNCHANGED notConn

PasswordLines(command, password, localPort) ==
    IF command = "connectWithPassword"
    THEN <<"Retrieved database credentials",
           "   User: fiftyten",
           "   Password: " \o password,
           "DATABASE_URL=postgres://fiftyten:" \o password \o "@localhost:"
               \o ToString(localPort) \o "/platform",
           "Checking local port availability...">>
    ELSE <<"Database password retrieved:",
           password,
           "DATABASE_URL=postgres://fiftyten:" \o password \o "@localhost:5433/platform">>

\* await this.getDatabasePassword(environment, database), and the lines the
\* caller prints with it.
ConnSecret(found, secretValue) ==
    /\ conn.pc = "secret"
    /\ conn' = IF found
               THEN Advance([conn EXCEPT
                       !.password = PasswordOf(secretValue),
                       !.output = @ \o PasswordLines(conn.command, PasswordOf(secretValue),
                                                     conn.localPort)])
               ELSE ConnThrows(conn, "Database password not found in secret")
    /\ UNCHANGED notConn

SolutionLines(command, localPort) ==
    <<"Port " \o ToString(localPort) \o " is already in use",
      "   1. Use a different port: fiftyten-db " \o CliName(command) \o " dev -d platform -p 5433",
      "   2. Find what's using port " \o ToString(localPort) \o ": lsof -i :" \o ToString(localPort),
      "   3. Stop local PostgreSQL if running: brew services stop postgresql">>

SuggestionLine(command, availablePort) ==
    "   4. Suggested available port: fiftyten-db " \o CliName(command)
        \o " dev -d platform -p " \o ToString(availablePort)

\* const isAvailable = await this.isPortAvailable(localPort)
ConnPort(available) ==
    /\ conn.pc = "port"
    /\ conn' = IF available
               THEN Advance([conn EXCEPT !.observed = "available"])
               ELSE [conn EXCEPT !.observed = "in use", !.pc = "probe",
                                 !.output = @ \o SolutionLines(conn.command, conn.localPort)]
    /\ UNCHANGED notConn

\* A search that proposes the last port it looked at, available or not.
ConnProbe_AnyPort(available) ==
    /\ conn.pc = "probe"
    /\ LET port == conn.localPort + 1 + Len(conn.probes)
           c == [conn EXCEPT !.probes = Append(@, available)]
       IN conn' = IF available \/ Len(c.probes) > SearchSpan
                  THEN ConnThrows([c EXCEPT !.output =
                                      Append(@, SuggestionLine(c.command, port))],
                                  PortInUse(c.localPort))
                  ELSE c
    /\ UNCHANGED notConn

\* One round of findAvailablePort(localPort + 1): await this.isPortAvailable(port);
\* then the suggestion, or nothing when the search threw; then the throw.
ConnProbe(available) ==
    /\ conn.pc = "probe"
    /\ LET port == conn.localPort + 1 + Len(conn.probes)
           c == [conn EXCEPT !.probes = Append(@, available)]
       IN conn' = IF available
                  THEN ConnThrows([c EXCEPT !.output =
                                      Append(@, SuggestionLine(c.command, port))],
                                  PortInUse(c.localPort))
                  ELSE IF Len(c.probes) > SearchSpan
                       THEN ConnThrows(c, PortInUse(c.localPort))
                       ELSE c
    /\ UNCHANGED notConn

\* checkTunnel(): one more 3-second timer.
checkTunnel(c) == [c EXCEPT !.timers = @ + 1]

\* child.stdout.on('data'): connectWithPassword reads the text, createTunnel
\* lets the tunnel write to the terminal itself.
StdoutData(matches) ==
    /\ conn.pc = "waiting"
    /\ conn.child = "running"
    /\ conn.data < MaxData
    /\ conn' = LET c == [conn EXCEPT !.data = @ + 1]
               IN IF matches /\ ~c.tunnelReady THEN checkTunnel(c) ELSE c
    /\ UNCHANGED notConn

\* child.on('error'): the tunnel could not be started.
ChildError ==
    /\ conn.pc \in {"waiting", "started"}
    /\ conn.child = "running"
    /\ conn.data = 0
    /\ conn' = IF conn.command = "createTunnel"
               THEN [conn EXCEPT !.child = "failed",
                                 !.output = Append(@, "Error starting tunnel: spawn aws ENOENT")]
               ELSE [conn EXCEPT !.child = "failed",
                                 !.PGPASSWORD = "",
                                 !.output = Append(@, "Error starting tunnel: spawn aws ENOENT"),
                                 !.promise = IF @ = "pending" THEN "rejected" ELSE @,
                                 !.settledAt = IF conn.promise = "pending" THEN conn.spawns ELSE @,
                                 !.error = IF conn.promise = "pending" THEN "spawn aws ENOENT" ELSE @]
    /\ UNCHANGED notConn

\* The session ends by itself: createTunnel reports it, connectWithPassword
\* does not listen.
ChildExits(code) ==
    /\ conn.pc \in {"waiting", "started"}
    /\ conn.child = "running"
    /\ conn' = [conn EXCEPT
          !.child = "exited",
          !.output = IF conn.command = "createTunnel"
                     THEN Append(@, IF code # 0
                                    THEN "Tunnel exited with code " \o ToString(code)
                                    ELSE "Tunnel closed")
                     ELSE @]
    /\ UNCHANGED notConn

\* The 5-second fallback timer.
FallbackFires ==
    /\ conn.pc = "waiting"
    /\ conn.fallback
    /\ conn' = LET c == [conn EXCEPT !.fallback = FALSE]
               IN IF ~c.tunnelReady THEN checkTunnel(c) ELSE c
    /\ UNCHANGED notConn

\* A 3-second timer of checkTunnel fires.
TimerFires ==
    /\ conn.pc = "waiting"
    /\ conn.timers > 0
    /\ conn' = IF ~conn.tunnelReady
               THEN [conn EXCEPT !.timers = @ - 1, !.PGPASSWORD = conn.password,
                                 !.psql = "running", !.spawns = @ + 1, !.tunnelReady = TRUE,
                                 !.output = Append(@, "Tunnel established! Connecting to database...")]
               ELSE [conn EXCEPT !.timers = @ - 1]
    /\ UNCHANGED notConn

\* child.kill()
Killed(child) == IF child = "running" THEN "killed" ELSE child

\* psql.on('exit')
PsqlExit(code) ==
    /\ conn.pc = "waiting"
    /\ conn.psql = "running"
    /\ conn' = [conn EXCEPT
          !.psql = "exited",
          !.PGPASSWORD = "",
          !.child = Killed(@),
          !.output = IF code = 0 THEN Append(@, "Database session ended") ELSE @,
          !.promise = IF @ = "pending"
                      THEN (IF code = 0 THEN "resolved" ELSE "rejected") ELSE @,
          !.settledAt = IF conn.promise = "pending" THEN conn.spawns ELSE @,
          !.error = IF conn.promise = "pending" /\ code # 0
                    THEN "psql exited with code " \o ToString(code) ELSE @]
    /\ UNCHANGED notConn

\* psql.on('error')
PsqlError(message) ==
    /\ conn.pc = "waiting"
    /\ conn.psql = "running"
    /\ conn' = [conn EXCEPT
          !.psql = "failed",
          !.PGPASSWORD = "",
          !.child = Killed(@),
          !.promise = IF @ = "pending" THEN "rejected" ELSE @,
          !.settledAt = IF conn.promise = "pending" THEN conn.spawns ELSE @,
          !.error = IF conn.promise # "pending" THEN @
                    ELSE IF Includes(message, "ENOENT")
                         THEN "psql command not found. Please install PostgreSQL client."
                         ELSE message]
    /\ UNCHANGED notConn

ExitCodes == {0, 2}
PsqlErrors == {"spawn psql ENOENT", "spawn psql EACCES"}

NextConn ==
    \/ \E found \in BOOLEAN : ConnLookup(found)
    \/ \E found \in BOOLEAN : ConnInfo(found)
    \/ \E found \in BOOLEAN : \E secretValue \in Secrets : ConnSecret(found, secretValue)
    \/ \E available \in BOOLEAN : ConnPort(available)
    \/ \E available \in BOOLEAN : ConnProbe(available)
    \/ \E matches \in BOOLEAN : StdoutData(matches)
    \/ ChildError
    \/ \E code \in ExitCodes : ChildExits(code)
    \/ FallbackFires
    \/ TimerFires
    \/ \E code \in ExitCodes : PsqlExit(code)
    \/ \E message \in PsqlErrors : PsqlError(message)

SpecConn == InitConn /\ [][NextConn]_vars

----------------------------------------------------------------------------
(* MigrationManager: startMigration, validateEndpointConnections,
   testAndWaitForConnection *)

maxRetries == 2
maxAttempts == 18

Endpoints == <<"source", "target">>

\* What DescribeConnections answers: the status of the first connection (none:
\* "unknown") with its LastFailureMessage, or an error of the API.
FailureMessages == {"", "password authentication failed"}
PollAnswers ==
    {[kind |-> "status", Status |-> s, LastFailureMessage |-> ""] :
        s \in {"successful", "testing", "unknown"}}
    \cup {[kind |-> "status", Status |-> "failed", LastFailureMessage |-> m] :
            m \in FailureMessages}
    \cup {[kind |-> "error", message |-> m] :
            m \in {"Cannot call GetSessionToken with session credentials",
                   "Rate exceeded"}}

StartDms ==
    [pc |-> "taskArn", endpoint |-> "none", retryCount |-> 0, attempts |-> 0,
     tests |-> [e \in {"source", "target"} |-> 0],
     successful |-> [e \in {"source", "target"} |-> FALSE],
     failedOnLast |-> "", polledAfter |-> FALSE,
     output |-> "",    \* the line written last
     issued |-> FALSE, result |-> "none", error |-> ""]

InitDms ==
    /\ Constructed
    /\ root = "mm"
    /\ fn = Off
    /\ flow = Off
    /\ tasks = Off
    /\ mig = Off
    /\ scan = Off
    /\ conn = Off
    /\ stack = Off
    /\ dms = StartDms

\* startMigration's catch: log and rethrow.
DmsFails(d, message) ==
    [d EXCEPT !.pc = "ended", !.result = "error", !.error = message,
              !.output = ("Failed to start migration: " \o message)]

\* const taskArn = await this.getMigrationTaskArn(environment)
DmsTaskArn(found) ==
    /\ dms.pc = "taskArn"
    /\ dms' = IF found THEN [dms EXCEPT !.pc = "outputs"]
              ELSE DmsFails(dms, "Migration task ARN not found in stack outputs for environment: dev")
    /\ UNCHANGED notDms

\* validateEndpointConnections up to the first test.
DmsOutputs(complete) ==
    /\ dms.pc = "outputs"
    /\ dms' = IF complete
              THEN [dms EXCEPT !.pc = "test", !.endpoint = "source", !.retryCount = 0]
              ELSE DmsFails(dms, "Missing endpoint or replication instance ARNs in stack outputs")
    /\ UNCHANGED notDms

\* testAndWaitForConnection returned: the next endpoint, or the confirmation.
EndpointReturns(d) ==
    IF d.endpoint = "source"
    THEN [d EXCEPT !.pc = "test", !.endpoint = "target", !.retryCount = 0, !.attempts = 0]
    ELSE [d EXCEPT !.pc = "confirm"]

\* The end of one round of `while (retryCount < maxRetries)`: retryCount++,
\* and the function returns when the loop is over.
NextRetry(d) ==
    LET r == [d EXCEPT !.retryCount = @ + 1]
    IN IF r.retryCount < maxRetries THEN [r EXCEPT !.pc = "test"] ELSE EndpointReturns(r)

\* An outer catch that never rethrows.
OuterCatch_NeverRethrows(d, message) ==
    NextRetry([d EXCEPT !.output = ("Error during " \o d.endpoint
                                               \o " endpoint test: " \o message)])

\* catch (error) of the retry loop: rethrow on the last round.
OuterCatch(d, message) ==
    LET logged == [d EXCEPT !.output = ("Error during " \o d.endpoint
                                                   \o " endpoint test: " \o message)]
    IN IF d.retryCount = maxRetries - 1
       THEN DmsFails(logged, message)
       ELSE NextRetry(logged)

\* After the polling loop: `if (retryCount === maxRetries - 1) throw ...timed out`.
AfterPolling(d) ==
    IF d.retryCount = maxRetries - 1
    THEN OuterCatch(d, d.endpoint \o " endpoint connection test timed out after "
                         \o ToString(maxRetries) \o " attempts (3 minutes each)")
    ELSE NextRetry([d EXCEPT !.output = (d.endpoint
                        \o " endpoint connection test timed out, retrying...")])

\* The end of one round of `while (attempts < maxAttempts)`: attempts++.
NextAttempt(d) ==
    LET a == [d EXCEPT !.attempts = @ + 1]
    IN IF a.attempts < maxAttempts THEN a ELSE AfterPolling(a)

\* catch (apiError) of one poll: warn and go on waiting.
InnerCatch(d, message) ==
    NextAttempt([d EXCEPT !.output =
        IF Includes(message, "Cannot call GetSessionToken with session credentials")
        THEN "Session token limitation - continuing with existing credentials"
        ELSE "API error while checking connection status: " \o message])

\* The (optional) 10 seconds of the retry, and await this.dmsClient.send(testCommand).
DmsTestStart(sent) ==
    /\ dms.pc = "test"
    /\ LET d == [dms EXCEPT !.tests[dms.endpoint] = @ + 1, !.attempts = 0]
       IN dms' = IF sent THEN [d EXCEPT !.pc = "poll"]
                 ELSE OuterCatch(d, "TestConnection failed")
    /\ UNCHANGED notDms

\* One round of the polling loop: 10 seconds, DescribeConnections, and what
\* the round does with the answer.
DmsPoll(answer) ==
    /\ dms.pc = "poll"
    /\ LET d == [dms EXCEPT !.polledAfter = @ \/ dms.failedOnLast # ""]
       IN dms' =
          IF answer.kind = "error" THEN InnerCatch(d, answer.message)
          ELSE LET shown == [d EXCEPT !.output = ("Connection status: " \o answer.Status)]
               IN CASE answer.Status = "successful" ->
                          EndpointReturns([shown EXCEPT !.successful[d.endpoint] = TRUE])
                    [] answer.Status = "failed" ->
                          LET error == OrElse(answer.LastFailureMessage, "Connection test failed")
                              told == [shown EXCEPT !.output = error]
                          IN IF d.retryCount = maxRetries - 1
                             THEN \* thrown inside the try of the poll
                                  InnerCatch([told EXCEPT !.failedOnLast = error],
                                             d.endpoint \o " endpoint connection failed after "
                                               \o ToString(maxRetries) \o " attempts: " \o error)
                             ELSE \* break
                                  AfterPolling(told)
                    [] OTHER -> NextAttempt(shown)
    /\ UNCHANGED notDms

\* promptConfirmation('Start full database migration (full-load + CDC)?')
DmsConfirm(confirm) ==
    /\ dms.pc = "confirm"
    /\ dms' = IF confirm THEN [dms EXCEPT !.pc = "start"]
              ELSE [dms EXCEPT !.pc = "ended", !.result = "cancelled",
                               !.output = ("Migration start cancelled.")]
    /\ UNCHANGED notDms

\* callWithMfaRetry(StartReplicationTask)
DmsStart(started_) ==
    /\ dms.pc = "start"
    /\ dms' = IF started_
              THEN [dms EXCEPT !.pc = "ended", !.issued = TRUE, !.result = "started",
                               !.output = ("Migration task started successfully!")]
              ELSE DmsFails([dms EXCEPT !.issued = TRUE], "StartReplicationTask failed")
    /\ UNCHANGED notDms

NextDms ==
    \/ \E found \in BOOLEAN : DmsTaskArn(found)
    \/ \E complete \in BOOLEAN : DmsOutputs(complete)
    \/ \E sent \in BOOLEAN : DmsTestStart(sent)
    \/ \E answer \in PollAnswers : DmsPoll(answer)
    \/ \E confirm \in BOOLEAN : DmsConfirm(confirm)
    \/ \E started_ \in BOOLEAN : DmsStart(started_)

SpecDms == InitDms /\ [][NextDms]_vars

----------------------------------------------------------------------------
(* CloudFormationManager: deployStack, deleteStack, waitForStackOperation   *)

StackName == "indicator-migration-stack-dev"

StackStatuses ==
    {"CREATE_IN_PROGRESS", "CREATE_COMPLETE", "CREATE_FAILED",
     "ROLLBACK_IN_PROGRESS", "ROLLBACK_COMPLETE", "ROLLBACK_FAILED",
     "UPDATE_IN_PROGRESS", "UPDATE_COMPLETE", "UPDATE_FAILED",
     "UPDATE_ROLLBACK_COMPLETE", "UPDATE_ROLLBACK_FAILED",
     "DELETE_IN_PROGRESS", "DELETE_COMPLETE", "DELETE_FAILED"}

\* What DescribeStacks throws once callWithMfaRetry has given up.
DescribeErrors ==
    {"Stack with id " \o StackName \o " does not exist", "Rate exceeded"}

\* What DescribeStacks answers: a stack with a status or without one, a
\* response without stacks, or an error.
DescribeAnswers == StackStatuses \cup {"undefined", "no stacks"} \cup DescribeErrors

deletionRequiredStates ==
    {"ROLLBACK_COMPLETE", "ROLLBACK_FAILED", "CREATE_FAILED", "DELETE_FAILED"}

Operations == {"create", "update", "delete"}

targetStatuses ==
    [operation \in Operations |->
        CASE operation = "create" -> {"CREATE_COMPLETE"}
          [] operation = "update" -> {"UPDATE_COMPLETE"}
          [] operation = "delete" -> {"DELETE_COMPLETE"}]

failureStatuses ==
    [operation \in Operations |->
        CASE operation = "create" -> {"CREATE_FAILED", "ROLLBACK_COMPLETE", "ROLLBACK_FAILED"}
          [] operation = "update" -> {"UPDATE_FAILED", "UPDATE_ROLLBACK_COMPLETE",
                                      "UPDATE_ROLLBACK_FAILED"}
          [] operation = "delete" -> {"DELETE_FAILED"}]

StackCommands == {"deployStack", "deleteStack"}

\* found: what deployStack's own DescribeStacks answered.  deletion: how the
\* deleteStack call went; deleteObserved: the answer its wait ended on.
\* observed, polls: the last answer and the number of answers of the wait
\* that is running or ran last.  issued: the commands sent that change the
\* stack.  reported: 'deployed successfully' / 'cleaned up successfully'.
StartStack(command) ==
    [pc |-> IF command = "deployStack" THEN "prepare" ELSE "deleteDescribe",
     command |-> command, found |-> "none",
     stackExists |-> FALSE, stackStatus |-> "undefined",
     operation |-> "none", issued |-> << >>,
     deletion |-> "not run", deleteObserved |-> "none",
     observed |-> "none", polls |-> 0,
     reported |-> FALSE, error |-> ""]

InitStack ==
    /\ Constructed
    /\ root = "mm"
    /\ fn = Off
    /\ flow = Off
    /\ tasks = Off
    /\ mig = Off
    /\ scan = Off
    /\ conn = Off
    /\ dms = Off
    /\ stack \in {StartStack(c) : c \in StackCommands}

\* The catch blocks of deployStack and deleteStack print and rethrow.
StackThrows(s, message) == [s EXCEPT !.pc = "error", !.error = message]

\* deployStack: getVpcInfo, discoverDatabaseSecurityGroups and the template.
Prepare(prepared) ==
    /\ stack.pc = "prepare"
    /\ stack' = IF prepared THEN [stack EXCEPT !.pc = "describe"]
                ELSE StackThrows(stack, "No default VPC found")
    /\ UNCHANGED notStack

\* A deployment that updates whatever stack it finds.
NeedsDeletion_Never(stackExists, stackStatus) == FALSE

\* `stackExists && stackStatus && deletionRequiredStates.includes(stackStatus)`
NeedsDeletion(stackExists, stackStatus) ==
    /\ stackExists
    /\ stackStatus # "undefined"
    /\ stackStatus \in deletionRequiredStates

\* `const operation = stackExists ? 'update' : 'create'`
ToSend(s) ==
    [s EXCEPT !.pc = "send", !.operation = IF s.stackExists THEN "update" ELSE "create"]

\* deployStack: 'Check if stack exists and its status'; an error of the
\* describe call is taken for 'no stack'.
DeployDescribe(answer) ==
    /\ stack.pc = "describe"
    /\ answer \in DescribeAnswers
    /\ LET s == [stack EXCEPT
                    !.found = answer,
                    !.stackExists = answer \notin DescribeErrors,
                    !.stackStatus = IF answer \in StackStatuses THEN answer ELSE "undefined"]
       IN stack' = IF NeedsDeletion(s.stackExists, s.stackStatus)
                   THEN [s EXCEPT !.pc = "deleteDescribe"]
                   ELSE ToSend(s)
    /\ UNCHANGED notStack

\* deleteStack returns; in deployStack `stackExists = false` follows, and the
\* fresh stack is created.
DeleteReturns(s, deletion) ==
    IF s.command = "deployStack"
    THEN ToSend([s EXCEPT !.deletion = deletion, !.stackExists = FALSE,
                          !.stackStatus = "undefined"])
    ELSE [s EXCEPT !.deletion = deletion, !.pc = "done",
                   !.reported = (deletion = "complete")]

\* deleteStack: 'Check if stack exists'; an error or a response without a
\* stack ends deleteStack normally, with nothing deleted.
DeleteDescribe(answer) ==
    /\ stack.pc = "deleteDescribe"
    /\ answer \in DescribeAnswers
    /\ stack' = IF answer \in DescribeErrors \cup {"no stacks"}
                THEN DeleteReturns([stack EXCEPT !.deleteObserved = answer], "not found")
                ELSE [stack EXCEPT !.pc = "deleteSend"]
    /\ UNCHANGED notStack

\* deleteStack: DeleteStackCommand, then the wait.
DeleteSend(sent) ==
    /\ stack.pc = "deleteSend"
    /\ stack' = IF sent
                THEN [stack EXCEPT !.issued = Append(@, "DeleteStack"),
                                   !.operation = "delete",
                                   !.observed = "none", !.polls = 0, !.pc = "wait"]
                ELSE StackThrows(stack, "Access denied")
    /\ UNCHANGED notStack

\* deployStack: UpdateStackCommand or CreateStackCommand, then the wait.
Send(sent) ==
    /\ stack.pc = "send"
    /\ stack' = IF sent
                THEN [stack EXCEPT
                        !.issued = Append(@, IF stack.operation = "update"
                                             THEN "UpdateStack" ELSE "CreateStack"),
                        !.observed = "none", !.polls = 0, !.pc = "wait"]
                ELSE StackThrows(stack, "Access denied")
    /\ UNCHANGED notStack

\* A wait that ends as soon as nothing is in progress any more.
waitForStackOperation_UntilSettled(operation, answer) ==
    CASE answer \in DescribeErrors \cup {"no stacks"} ->
            IF operation = "delete" THEN "break" ELSE "throw"
      [] answer \in failureStatuses[operation] -> "throw"
      [] answer # "undefined" /\ ~Includes(answer, "IN_PROGRESS") -> "break"
      [] OTHER -> "wait"

\* One round of the while (true) of waitForStackOperation, for the answer
\* DescribeStacks gave: leave the loop, throw, or wait 10 seconds and ask
\* again.
waitForStackOperation(operation, answer) ==
    CASE answer \in DescribeErrors ->
            IF operation = "delete" /\ Includes(answer, "does not exist")
            THEN "break" ELSE "throw"
      [] answer = "no stacks" ->
            IF operation = "delete" THEN "break" ELSE "throw"
      [] answer \in targetStatuses[operation] -> "break"
      [] answer \in failureStatuses[operation] -> "throw"
      [] OTHER -> "wait"

\* The message of the error a round throws.
WaitError(operation, answer) ==
    CASE answer \in DescribeErrors -> answer
      [] answer = "no stacks" -> "Stack not found"
      [] OTHER -> "Stack " \o operation \o " failed with status: " \o answer

\* waitForStackOperation: DescribeStacks answers.
Poll(answer) ==
    /\ stack.pc = "wait"
    /\ stack.polls < MaxPolls
    /\ answer \in DescribeAnswers
    /\ LET s == [stack EXCEPT !.observed = answer, !.polls = @ + 1]
           round == waitForStackOperation(stack.operation, answer)
       IN stack' =
            CASE round = "throw" -> StackThrows(s, WaitError(stack.operation, answer))
              [] round = "wait" -> s
              [] round = "break" /\ stack.operation = "delete" ->
                    DeleteReturns([s EXCEPT !.deleteObserved = answer,
                                            !.observed = "none"], "complete")
              [] OTHER -> [s EXCEPT !.reported = TRUE, !.pc = "configure"]
    /\ UNCHANGED notStack

\* deployStack: getStackOutputs and configureSecurityGroupAccess, inside a
\* try whose catch only prints.
Configure(configured) ==
    /\ stack.pc = "configure"
    /\ configured \in BOOLEAN
    /\ stack' = [stack EXCEPT !.pc = "done"]
    /\ UNCHANGED notStack

NextStack ==
    \/ \E prepared \in BOOLEAN : Prepare(prepared)
    \/ \E answer \in DescribeAnswers : DeployDescribe(answer)
    \/ \E answer \in DescribeAnswers : DeleteDescribe(answer)
    \/ \E sent \in BOOLEAN : DeleteSend(sent)
    \/ \E sent \in BOOLEAN : Send(sent)
    \/ \E answer \in DescribeAnswers : Poll(answer)
    \/ \E configured \in BOOLEAN : Configure(configured)

SpecStack == InitStack /\ [][NextStack]_vars

----------------------------------------------------------------------------
(* C1 *)

\* C1: in one callWithMfaRetry call the operation is invoked at most twice;
\* on the MFA path with a successful re-authentication it is invoked exactly
\* twice and the call ends with exactly the outcome of the second invocation,
\* after one challenge, with nothing classified or retried after it.
C1_OneRetryOnly ==
    /\ invocations <= 2
    /\ Count(trace, "invoke") = invocations
    /\ Count(trace, "challenge") <= 1
    /\ (pc = "done" /\ OnMfaPath) =>
          /\ invocations = 2
          /\ second # None
          /\ result = second
          /\ trace = Append(MfaPathTrace, IF second.kind = "value" THEN "returned" ELSE "failed")

\* P3: the operation failed with an MFA-classified error both times, and the
\* second failure is what the caller got.
C1_Witness ==
    /\ pc = "done"
    /\ OnMfaPath
    /\ MfaFailure(second)
    /\ second # first
    /\ invocations = 2
    /\ result = second

----------------------------------------------------------------------------
(* C2 *)

\* C2: at most one interactive challenge per process run, whatever the
\* component: once a challenge has succeeded anywhere in the process, no
\* component is found waiting in authenticateWithMfa() again.
C2_OneChallengePerProcess ==
    pc \in {"auth", "ensure"} => issued = 0

----------------------------------------------------------------------------
(* C3 *)

\* C3 as stated: an instance starts at most one interactive prompt sequence,
\* over any sequence of wrapped calls on it.
C3_OnePromptSequencePerInstance ==
    \A i \in Inst : started[i] <= 1

\* C3 amended: of the prompt sequences an instance starts, all but at most one
\* ended in a failed token exchange; one call starts at most one; and an
\* instance that is Authenticated is never waiting in authenticateWithMfa().
C3_OneSuccessfulSequencePerInstance ==
    /\ \A i \in Inst : started[i] <= failed[i] + 1
    /\ Count(trace, "challenge") <= 1
    /\ pc \in {"auth", "ensure"} => ~mfaAuthenticated[cur.inst]

\* getBastionInstanceId: the first wrapped call ended in a failed exchange, the
\* next one on the same instance started a second sequence, which succeeded.
C3_Witness ==
    \E i \in Wrapped :
        /\ started[i] = 2
        /\ failed[i] = 1
        /\ mfaAuthenticated[i]

----------------------------------------------------------------------------
(* C4 *)

\* C4: once an instance is Authenticated it stays so and starts no interactive
\* flow again; a later callWithMfaRetry call on it whose operation fails with
\* an MFA-classified error invokes the operation once and rethrows that error.
C4_NoRechallengeOnceAuthenticated ==
    /\ [][\A i \in Inst : mfaAuthenticated[i] =>
              /\ mfaAuthenticated'[i]
              /\ started'[i] = started[i]]_vars
    /\ [](pc = "done" /\ InWrapper /\ pre.mfaAuthenticated[cur.inst] /\ MfaFailure(first) =>
              /\ invocations = 1
              /\ result = first
              /\ Count(trace, "challenge") = 0)

C4_Witness ==
    /\ pc = "done"
    /\ InWrapper
    /\ pre.mfaAuthenticated[cur.inst]
    /\ started[cur.inst] = 1
    /\ MfaFailure(first)
    /\ invocations = 1
    /\ result = first

----------------------------------------------------------------------------
(* C5 *)

\* C5: after a successful challenge and before the retry, the ambient
\* variables hold the exchanged credential, every client of the calling
\* component and of its nested components has been rebuilt with it, and so has
\* the client the pending operation sends on.
C5_CredentialReachesEveryClient ==
    (InWrapper /\ pc \in {"retry", "op2"}) =>
        /\ Exported
        /\ \A j \in {cur.inst} \cup Nested(cur.inst) :
              \A f \in Fields(Kind(j)) : clients[j][f].credentials = credentials
        /\ ClientOf(cur.inst, cur.op, cur.local).credentials = credentials
        /\ ClientOf(cur.inst, cur.op, cur.local).builtAt = issued

----------------------------------------------------------------------------
(* C6 *)

\* C6: when the first invocation succeeds, callWithMfaRetry returns its value
\* after that one invocation, starts no interactive flow and leaves the flags,
\* the ambient variables and the clients as they were.
C6_NoOpOnSuccess ==
    (pc = "done" /\ InWrapper /\ first.kind = "value") =>
        /\ result = first
        /\ invocations = 1
        /\ trace = <<"invoke", "returned">>
        /\ Untouched

\* ... also on an instance that is already Authenticated.
C6_Witness ==
    /\ pc = "done"
    /\ InWrapper
    /\ first.kind = "value"
    /\ result = first
    /\ pre.mfaAuthenticated[cur.inst]

----------------------------------------------------------------------------
(* C7 *)

\* The call in progress ended because authenticateWithMfa() threw.
ExchangeFailed == trace # << >> /\ Last(trace) = "exchange_failed"

\* C7: a failed token exchange ends the current call with an error after the
\* one invocation, leaves the instance Unauthenticated and the ambient
\* variables and clients untouched; and on a later call of the same instance
\* an MFA-classified failure can start a new challenge.
C7_FailedExchangeIsFatalForThisCallOnly ==
    /\ (pc = "done" /\ InWrapper /\ ExchangeFailed) =>
          /\ result.kind = "error"
          /\ result.error \in {TranslateStsError(e) : e \in StsErrors}
          /\ invocations = 1
          /\ ~mfaAuthenticated[cur.inst]
          /\ Untouched
    /\ (pc = "op1" /\ failed[cur.inst] > 0 /\ ~mfaAuthenticated[cur.inst]) =>
          ENABLED (\E o \in Outcomes : FirstSettles(o) /\ pc' = "auth")

\* A second challenge is under way on an instance whose earlier one failed.
C7_Witness ==
    /\ pc = "auth"
    /\ failed[cur.inst] = 1
    /\ started[cur.inst] = 2
    /\ ~mfaAuthenticated[cur.inst]

----------------------------------------------------------------------------
(* C8 *)

\* C8: a first failure that is not classified as MFA-required is rethrown as
\* it is, after the one invocation, with no prompt and nothing changed.
C8_OtherErrorsPropagateUnchanged ==
    (pc = "done" /\ InWrapper /\ OtherFailure(first)) =>
        /\ result = first
        /\ invocations = 1
        /\ trace = <<"invoke", "failed", "rethrown">>
        /\ Untouched

C8_Witness ==
    /\ pc = "done"
    /\ InWrapper
    /\ OtherFailure(first)
    /\ ~mfaAuthenticated[cur.inst]
    /\ result = first

----------------------------------------------------------------------------
(* C9 *)

\* C9: on the MFA path of callWithMfaRetry the steps come in this order, none
\* skipped: the first invocation fails, the exchange succeeds, the credential
\* is exported, the clients are rebuilt, the flag is set, and only then is the
\* operation invoked again; no flag is set before an exchange has succeeded.
C9_OrderOfTheMfaPath ==
    /\ InWrapper =>
        /\ pc = "auth" =>
              MfaFailure(first) /\ invocations = 1 /\ credentials = NoCredentials /\ Untouched
        /\ pc = "apply" =>
              credentials = Credential(issued) /\ invocations = 1 /\ Untouched
        /\ pc = "recreate" =>
              /\ Exported
              /\ clients = pre.clients
              /\ mfaAuthenticated = pre.mfaAuthenticated
              /\ invocations = 1
        /\ pc = "mark" =>
              /\ Exported
              /\ RebuiltWith(cur.inst, credentials)
              /\ mfaAuthenticated = pre.mfaAuthenticated
              /\ invocations = 1
        /\ pc = "retry" =>
              /\ Exported
              /\ RebuiltWith(cur.inst, credentials)
              /\ mfaAuthenticated[cur.inst]
              /\ invocations = 1
        /\ invocations = 2 =>
              /\ SubSeq(trace, 1, Len(MfaPathTrace)) = MfaPathTrace
              /\ credentials = Credential(issued)
              /\ Exported
              /\ RebuiltWith(cur.inst, credentials)
              /\ mfaAuthenticated[cur.inst]
              /\ ~pre.mfaAuthenticated[cur.inst]
    /\ Cardinality({i \in Inst : mfaAuthenticated[i]}) <= issued

\* The second invocation is under way.
C9_Witness ==
    /\ pc = "op2"
    /\ InWrapper
    /\ invocations = 2
    /\ trace = MfaPathTrace

----------------------------------------------------------------------------
(* C10 *)

\* C10: a challenge is started only in answer to an AWS failure classified as
\* MFA-required, never before an AWS call has failed, and a challenge that
\* fails reaches the caller as the error of the call.
C10_ChallengeOnlyAfterClassifiedFailure ==
    /\ pc \in {"auth", "ensure"} => MfaFailure(first)
    /\ Count(trace, "challenge") > 0 => trace[1] = "invoke"
    /\ (pc = "done" /\ Count(trace, "exchange_failed") > 0) =>
          /\ result.kind = "error"
          /\ result.error \in {TranslateStsError(e) : e \in StsErrors}

----------------------------------------------------------------------------
(* C11 *)

\* C11: every AWS call goes through callWithMfaRetry: wherever a call of an
\* instance that had not authenticated fails with an MFA-classified error, a
\* challenge follows that failure, and after a successful exchange the call is
\* sent a second time; the failure is never what the caller is left with.
C11_EveryAwsCallIsWrapped ==
    (MfaFailure(first) /\ ~mfaAuthenticated[cur.inst] /\ Count(trace, "authenticated") = 0) =>
        /\ Len(trace) >= 3
        /\ SubSeq(trace, 1, 3) = <<"invoke", "failed", "challenge">>
        /\ pc = "done" => ExchangeFailed

----------------------------------------------------------------------------
(* C12 *)

TriggerSubstrings == {"explicit deny", "MFA", "MultiFactorAuthentication"}

TriggerCodes == {"AccessDenied", "AccessDeniedException"}

\* The code the provider gave the error: Code, or name where there is no Code.
ProviderCode(e) == IF e.Code # "" THEN e.Code ELSE e.name

\* C12: isMfaRequired(error) is true exactly when the message contains one of
\* the three trigger substrings, in that spelling, or the provider code is
\* one of the two trigger codes; it is false for every other error.
C12_ClassifierIsExact ==
    (fn.pc = "returned" /\ fn.name = "isMfaRequired") =>
        (fn.value <=>
            \/ \E t \in TriggerSubstrings : Includes(fn.arg.message, t)
            \/ ProviderCode(fn.arg) \in TriggerCodes)

\* An error with no message and no code at all is classified as not MFA.
C12_Witness ==
    /\ fn.pc = "returned"
    /\ fn.name = "isMfaRequired"
    /\ fn.arg = Err("", "", "")
    /\ fn.value = FALSE

----------------------------------------------------------------------------
(* C13 *)

FlowEnded == flow.pc \in {"returned", "thrown"}

\* C13: one re-authentication asks the provider for the devices once (at most
\* one GetCallerIdentity and one ListMFADevices request) and sends exactly one
\* token exchange, on every path.
C13_OneDiscoveryOneExchange ==
    /\ flow.lists <= 1
    /\ flow.identity <= 1
    /\ FlowEnded => flow.exchanges = 1

----------------------------------------------------------------------------
(* C14 *)

\* C14: within one re-authentication the token exchange is sent at most once;
\* when the provider rejects the code the flow has failed: it throws, and
\* neither asks for another code nor sends the exchange again.
C14_ExchangeAtMostOnce ==
    /\ flow.exchanges <= 1
    /\ flow.pc = "thrown" =>
          /\ flow.exchanges = 1
          /\ flow.outcome.kind = "error"
          /\ ~ENABLED NextFlow

\* The code typed at the second prompt was rejected by the provider.
C14_Witness ==
    /\ flow.pc = "thrown"
    /\ flow.tokenPrompts = 2
    /\ flow.exchanges = 1
    /\ flow.outcome = Thrown(Err("Invalid or expired MFA token code.", "", "Error"))

----------------------------------------------------------------------------
(* C15 *)

SerialChosen == flow.pc \in {"token", "exchange", "returned", "thrown"}

DevicesAsked == flow.pc \in {"manual", "menu"} \/ SerialChosen

\* The serials the provider gave promptMfaConfig: none where a request failed.
Discovered ==
    IF flow.provider.identity.ok /\ flow.provider.identity.Arn # "" /\ flow.provider.list.ok
    THEN flow.provider.list.devices
    ELSE << >>

\* The answers that are plain whole numbers, with the number each one writes.
PlainNumbers == ("1" :> 1) @@ ("2" :> 2) @@ ("3" :> 3) @@ ("0" :> 0) @@ ("-1" :> -1) @@ ("99" :> 99)

\* The answers with no number in them.
NoNumber == {"", "abc"}

\* C15: which way a device is selected depends only on how many serials were
\* discovered.  None, or a failed discovery: manual entry, and the flow never
\* aborts before the exchange.  One: that serial, with no menu and nothing
\* typed.  Two or more: one menu, whose outcome is always one of the discovered
\* serials; a number out of range, or an answer that is no number, gives the
\* first one.
C15_SelectionByNumberOfDevices ==
    /\ flow.outcome.kind = "error" => flow.exchanges = 1
    /\ DevicesAsked =>
          /\ flow.devices = Discovered
          /\ flow.pc = "manual" <=> (Len(Discovered) = 0 /\ ~SerialChosen)
          /\ flow.pc = "menu" <=> (Len(Discovered) >= 2 /\ ~SerialChosen)
    /\ SerialChosen =>
          /\ Len(Discovered) = 0 => (flow.serialPrompts >= 1 /\ flow.menus = 0)
          /\ Len(Discovered) = 1 =>
                /\ flow.serial = Discovered[1]
                /\ flow.serialPrompts = 0
                /\ flow.menus = 0
          /\ Len(Discovered) >= 2 =>
                /\ flow.menus = 1
                /\ flow.serialPrompts = 0
                /\ \E k \in DOMAIN Discovered : flow.serial = Discovered[k]
                /\ flow.menuAnswer \in DOMAIN PlainNumbers =>
                      LET k == PlainNumbers[flow.menuAnswer] IN
                      flow.serial = IF k \in DOMAIN Discovered THEN Discovered[k]
                                    ELSE Discovered[1]
                /\ flow.menuAnswer \in NoNumber => flow.serial = Discovered[1]

\* The operator answered the menu with a number that is not on it.
C15_Witness ==
    /\ SerialChosen
    /\ Len(Discovered) >= 2
    /\ flow.menuAnswer = "99"
    /\ flow.serial = Discovered[1]

----------------------------------------------------------------------------
(* C16 *)

TokenGiven == flow.pc \in {"exchange", "returned", "thrown"}

SixDigits(s) == Len(s) = 6 /\ LeadingDigits(s, DecimalDigits) = 6

\* C16: the token prompt hands on only a string of exactly six decimal digits,
\* which is the entry that ended the loop (less the blanks around it); every
\* other entry, such as "12345", "abcdef" or "", is rejected and the prompt
\* repeated.
C16_TokenIsSixDigits ==
    /\ TokenGiven =>
          /\ SixDigits(flow.token)
          /\ flow.token = Trim(flow.tokenAnswer)
          /\ flow.tokenPrompts >= 1
    /\ (flow.tokenPrompts >= 1 /\ ~SixDigits(Trim(flow.tokenAnswer))) =>
          /\ flow.pc = "token"
          /\ flow.tokenPrompts < MaxPrompts => ENABLED (\E a \in TokenAnswers : TokenEntry(a))
    /\ (flow.tokenPrompts >= 1 /\ flow.tokenAnswer \in {"12345", "abcdef", ""}) =>
          flow.pc = "token"

\* "abcdef" was rejected, the next entry was accepted.
C16_Witness ==
    /\ flow.pc = "exchange"
    /\ flow.tokenPrompts = 2
    /\ flow.token = "123456"

----------------------------------------------------------------------------
(* C17 *)

\* arn:aws:iam::ACCOUNT:mfa/DEVICE_NAME, with a twelve-digit account.
MfaDeviceArn(s) ==
    /\ StartsWith(s, "arn:aws:iam::")
    /\ LET rest == SubSeq(s, 14, Len(s)) IN
        /\ LeadingDigits(rest, DecimalDigits) = 12
        /\ StartsWith(SubSeq(rest, 13, Len(rest)), ":mfa/")
        /\ Len(rest) > 17

\* C17: the serial that manual entry hands on has the shape of an MFA-device
\* ARN; what is typed (or the default accepted) without that shape is asked
\* for again.
C17_ManualSerialIsMfaArn ==
    (SerialChosen /\ flow.serialPrompts >= 1) => MfaDeviceArn(flow.serial)

----------------------------------------------------------------------------
(* C18 *)

\* The rules of the claim, in their order: what the message must contain, and
\* the message the caller gets.
TranslationRules ==
    << [contains |-> "MultiFactorAuthentication",
        message |-> "Invalid MFA token code. Please try again."],
       [contains |-> "TokenCode",
        message |-> "Invalid or expired MFA token code."],
       [contains |-> "AccessDenied",
        message |-> "Access denied. Please check your MFA device serial number."] >>

Matching(e) == {k \in DOMAIN TranslationRules : Includes(e.message, TranslationRules[k].contains)}

\* C18: a rejected token exchange reaches the caller translated by the first
\* rule that matches its message, or as it is where none matches; and in every
\* case callWithMfaRetry ends there with that error, the operation not invoked
\* again.
C18_RejectionIsTranslatedInOrder ==
    (pc = "done" /\ InWrapper /\ ExchangeFailed) =>
        /\ rejection.kind = "error"
        /\ result.kind = "error"
        /\ IF Matching(rejection.error) = {}
           THEN result.error = rejection.error
           ELSE LET k == CHOOSE j \in Matching(rejection.error) :
                            \A l \in Matching(rejection.error) : j <= l
                IN  result.error.message = TranslationRules[k].message
        /\ invocations = 1
        /\ second = None

\* The rejection matches the second and the third rule; the second applies.
C18_Witness ==
    /\ pc = "done"
    /\ InWrapper
    /\ ExchangeFailed
    /\ Matching(rejection.error) = {2, 3}
    /\ result.error.message = "Invalid or expired MFA token code."

----------------------------------------------------------------------------
(* C19 *)

Sum(f) == f["t1"] + f["t2"]

Challenges == Sum([t \in Tasks |-> tasks[t].challenges])

Swaps == Sum([t \in Tasks |-> tasks[t].swaps])

\* C19 as stated: when two calls on one instance overlap and the first attempt
\* of both fails with an MFA error, still at most one challenge is started
\* (but for those that ended in a failed exchange) and the credential is
\* swapped at most once.
C19_OneChallengeForOverlappingCalls ==
    /\ started["dc"] <= failed["dc"] + 1
    /\ Swaps <= 1

\* C19 amended: the flag is tested when a failure is classified and set only
\* after the exchange, with nothing to keep another call out in between.  One
\* call starts at most one challenge and swaps at most once, after its own
\* successful exchange; and once the flag is set no call starts a challenge.
C19_OneChallengePerCallUntilFlagSet ==
    /\ [][mfaAuthenticated["dc"] => started'["dc"] = started["dc"]]_vars
    /\ [](/\ \A t \in Tasks : tasks[t].challenges <= 1 /\ tasks[t].swaps <= tasks[t].challenges
          /\ started["dc"] = Challenges
          /\ Swaps <= issued
          /\ mfaAuthenticated["dc"] <=> Swaps > 0)

\* Both calls found the flag unset and both are in authenticateWithMfa().
C19_Witness ==
    /\ \A t \in Tasks : tasks[t].pc = "auth"
    /\ started["dc"] = 2
    /\ ~mfaAuthenticated["dc"]

----------------------------------------------------------------------------
(* C20 *)

IsPrefix(a, b) == Len(a) <= Len(b) /\ SubSeq(b, 1, Len(a)) = a

\* The order the README gives: source tunnel, dump, close, target tunnel,
\* restore, close.  An external source has no tunnel.
TunnelOrder(sourceType) ==
    IF sourceType = "external"
    THEN <<"dump", "target opened", "restore", "target closed">>
    ELSE <<"source opened", "dump", "source closed", "target opened", "restore", "target closed">>

Recorded(port) == \E k \in DOMAIN mig.activeTunnels : mig.activeTunnels[k].localPort = port

\* C20: in a pg_dump migration the tunnels are used one after the other: the
\* source tunnel is opened, the dump runs, the source tunnel is killed and
\* taken off activeTunnels before the target tunnel is opened; the two are
\* never both recorded, nor both running.
C20_TunnelsInSequence ==
    mig.command = "performPgMigration" =>
    /\ Len(mig.activeTunnels) <= 1
    /\ ~(mig.procs[SourcePort] = "running" /\ mig.procs[TargetPort] = "running")
    /\ IsPrefix(mig.events, TunnelOrder(mig.sourceType))
    /\ mig.procs[TargetPort] # "none" =>
          /\ ~Recorded(SourcePort)
          /\ mig.sourceType = "aws-managed" =>
                /\ mig.procs[SourcePort] \in {"killed", "exited"}
                /\ IsPrefix(<<"source opened", "dump", "source closed">>, mig.events)
    /\ mig.pc = "dump" => (mig.sourceType = "aws-managed" <=> Recorded(SourcePort))
    /\ mig.pc = "restore" => Recorded(TargetPort)

\* The restore runs through the target tunnel, the source tunnel is gone.
C20_Witness ==
    /\ mig.command = "performPgMigration"
    /\ mig.pc = "restore"
    /\ mig.sourceType = "aws-managed"
    /\ mig.activeTunnels = <<[localPort |-> TargetPort]>>
    /\ mig.procs[SourcePort] = "killed"
    /\ mig.procs[TargetPort] = "running"

----------------------------------------------------------------------------
(* C21 *)

\* The item with the value of every sensitive field replaced, at every depth.
RECURSIVE Redacted(_)
Redacted(value) ==
    CASE value.t = "M" ->
            Obj([i \in DOMAIN value.m |->
                   IF \E j \in DOMAIN sensitiveFields : sensitiveFields[j] = value.m[i].k
                   THEN [k |-> value.m[i].k, v |-> Str("[HIDDEN]")]
                   ELSE [k |-> value.m[i].k, v |-> Redacted(value.m[i].v)]])
      [] value.t = "L" -> List([i \in DOMAIN value.l |-> Redacted(value.l[i])])
      [] OTHER -> value

\* C21: what scan, query and get-item print for the items they received is
\* the items with the value of every sensitive field, wherever it occurs in
\* an item, replaced by "[HIDDEN]" and every other field as it was.
C21_SensitiveValuesHidden ==
    (scan.pc = "done" /\ scan.result = "shown" /\ Len(scan.items) > 0) =>
        scan.output[2] =
            IF scan.command = "getItem"
            THEN Stringify(Redacted(scan.items[1]), 0)
            ELSE Stringify(Redacted(List(scan.items)), 0)

----------------------------------------------------------------------------
(* C22 *)

\* C22: a password retrieved from Secrets Manager is in no line the tool
\* writes to the terminal, and it is not in the process environment once the
\* command that needed it has ended.
C22_PasswordNeitherShownNorKept ==
    conn.password # "" =>
        /\ \A i \in DOMAIN conn.output : ~Includes(conn.output[i], conn.password)
        /\ conn.promise \in {"resolved", "rejected"} => conn.PGPASSWORD = ""

----------------------------------------------------------------------------
(* C23 *)

\* The ports the search looks at, and what was observed of them so far.
SearchedPorts == {conn.localPort + k : k \in 1..(SearchSpan + 1)}
ObservedAvailable(port) ==
    /\ port - conn.localPort \in DOMAIN conn.probes
    /\ conn.probes[port - conn.localPort]
ObservedInUse(port) ==
    /\ port - conn.localPort \in DOMAIN conn.probes
    /\ ~conn.probes[port - conn.localPort]
Suggested(port) ==
    \E i \in DOMAIN conn.output : conn.output[i] = SuggestionLine(conn.command, port)
PortsNamed == {conn.localPort + k : k \in 0..(SearchSpan + 2)}

\* C23: when the requested local port was observed in use, createTunnel and
\* connectWithPassword start no port forwarding and fail with the port-in-use
\* error; the port they suggest is the lowest of localPort+1 .. localPort+11
\* that was observed available, and they suggest none when all eleven were
\* observed in use.
C23_PortInUseStopsAndSuggestsLowest ==
    conn.observed = "in use" =>
        /\ conn.child = "none"
        /\ conn.pc \in {"probe", "ended"}
        /\ conn.pc = "ended" =>
              /\ conn.promise = "rejected"
              /\ conn.error = PortInUse(conn.localPort)
              /\ \A port \in PortsNamed :
                    Suggested(port) <=>
                        /\ port \in SearchedPorts
                        /\ ObservedAvailable(port)
                        /\ \A q \in SearchedPorts : q < port => ObservedInUse(q)
              /\ (\A port \in SearchedPorts : ObservedInUse(port)) =>
                    ~\E port \in PortsNamed : Suggested(port)
        /\ conn.pc = "probe" => ~\E port \in PortsNamed : Suggested(port)

C23_Witness ==
    /\ conn.pc = "ended"
    /\ conn.observed = "in use"
    /\ conn.command = "connectWithPassword"
    /\ Suggested(conn.localPort + 3)

C23_WitnessNone ==
    /\ conn.pc = "ended"
    /\ conn.observed = "in use"
    /\ Len(conn.probes) = SearchSpan + 1
    /\ \A port \in SearchedPorts : ObservedInUse(port)

----------------------------------------------------------------------------
(* C28 *)

\* C28: in connectWithPassword psql is spawned at most once per call, and
\* once the call has settled no psql is spawned any more and PGPASSWORD is not
\* in the process environment.
C28_OnePsqlAndNoneAfterSettling ==
    conn.command = "connectWithPassword" =>
        /\ conn.spawns <= 1
        /\ conn.promise \in {"resolved", "rejected"} =>
              /\ conn.spawns = conn.settledAt
              /\ conn.PGPASSWORD = ""

----------------------------------------------------------------------------
(* C24 *)

\* C24: once a poll of the last allowed attempt has observed the status
\* 'failed', testAndWaitForConnection polls no more and has raised an error
\* that carries the endpoint's failure message and is not the time-out error.
C24_FailedOnLastAttemptRaisesAtOnce ==
    dms.failedOnLast # "" =>
        /\ ~dms.polledAfter
        /\ dms.pc = "ended"
        /\ dms.result = "error"
        /\ Includes(dms.error, dms.failedOnLast)
        /\ ~Includes(dms.error, "timed out")

----------------------------------------------------------------------------
(* C25 *)

\* The endpoints whose test has returned.
Passed(e) ==
    \/ e = "source" /\ dms.endpoint = "target"
    \/ dms.pc \in {"confirm", "start"}
    \/ dms.result \in {"cancelled", "started"}
    \/ dms.issued

\* C25: testAndWaitForConnection starts TestConnection at most twice and polls
\* at most 18 times per start, it returns only when a poll has observed
\* 'successful', and StartReplicationTask is issued only after both endpoints
\* were observed 'successful'.
C25_BoundedAndOnlySuccessPasses ==
    /\ \A e \in {"source", "target"} : dms.tests[e] <= maxRetries
    /\ dms.attempts <= maxAttempts
    /\ dms.retryCount < maxRetries
    /\ \A e \in {"source", "target"} : Passed(e) => dms.successful[e]
    /\ dms.issued => dms.successful["source"] /\ dms.successful["target"]

C25_Witness ==
    /\ dms.issued
    /\ dms.result = "started"
    /\ dms.tests["source"] = maxRetries
    /\ dms.tests["target"] = maxRetries

----------------------------------------------------------------------------
(* C26 *)

\* C26: when performPgMigration, testConnections or getMigrationStats has
\* finished, with or without an error, kill() was called on every tunnel
\* process that was recorded as active and activeTunnels is empty, a revoke was
\* sent for every rule the run added and addedSecurityGroupRules is empty;
\* and no revoke is ever sent for a rule that was there before the run.
C26_CleanupLeavesNothing ==
    /\ mig.attempted \cap mig.preexisting = {}
    /\ mig.pc = "done" =>
          /\ mig.activeTunnels = << >>
          /\ \A port \in mig.recorded : mig.signalled[port]
          /\ \A port \in Ports : mig.procs[port] # "running"
          /\ mig.addedSecurityGroupRules = << >>
          /\ mig.authorized \subseteq mig.attempted

\* A connection test that failed with both tunnels open, a rule added and a
\* rule found in place.
C26_Witness ==
    /\ mig.pc = "done"
    /\ mig.command = "testConnections"
    /\ mig.error # ""
    /\ mig.recorded = Ports
    /\ mig.authorized # {}
    /\ mig.preexisting # {}

----------------------------------------------------------------------------
(* C27 *)

\* C27: when executeSequentialMigration has returned or thrown, the dump file
\* it had pg_dump write is gone.
C27_NoDumpFileLeftBehind ==
    (mig.command = "performPgMigration" /\ mig.pc \in {"cleanup", "revoke", "done"}) =>
        mig.dumpFile = "absent"

----------------------------------------------------------------------------
(* C29 *)

Issued(command) == \E k \in 1..Len(stack.issued) : stack.issued[k] = command

\* deployStack's describe call answered with a stack.
DescribedSuccessfully == stack.found \in StackStatuses \cup {"undefined", "no stacks"}

\* The deletion was seen to be over: DELETE_COMPLETE, or no stack any more.
ObservedDeleted ==
    \/ stack.deleteObserved \in {"DELETE_COMPLETE", "no stacks"}
    \/ Includes(stack.deleteObserved, "does not exist")

UpdateOnlyForSoundStack ==
    Issued("UpdateStack") =>
        /\ DescribedSuccessfully
        /\ stack.found \notin deletionRequiredStates
        /\ stack.issued = <<"UpdateStack">>

CreateWhenDescribeFails ==
    (stack.found \in DescribeErrors /\ stack.pc \in {"wait", "configure", "done"}) =>
        stack.issued = <<"CreateStack">>

----------------------------------------------------------------------------
(* C30 *)

InWait == stack.pc = "wait" /\ stack.observed # "none"

\* C30: waitForStackOperation returns normally only on the target status of
\* its operation or, when deleting, on a stack that is no more; on a failure
\* status of its operation it throws at once, on every other status it asks
\* again; and deployStack reports success only after CREATE_COMPLETE or
\* UPDATE_COMPLETE was observed.
C30_WaitEndsOnTargetOrFailure ==
    /\ stack.deletion = "complete" => ObservedDeleted
    /\ (stack.command = "deployStack" /\ stack.reported) =>
          /\ stack.operation \in {"create", "update"}
          /\ stack.observed \in targetStatuses[stack.operation]
    /\ (stack.operation # "none" /\ stack.observed \in failureStatuses[stack.operation]) =>
          /\ stack.pc = "error"
          /\ Includes(stack.error, stack.observed)
    /\ InWait => stack.observed \in (StackStatuses \cup {"undefined"})
                                      \ (targetStatuses[stack.operation]
                                         \cup failureStatuses[stack.operation])
    /\ (stack.operation # "none"
        /\ stack.observed \in StackStatuses \ (targetStatuses[stack.operation]
                                                \cup failureStatuses[stack.operation])) =>
          stack.pc = "wait"
    /\ (stack.pc \in {"configure", "done"} /\ stack.command = "deployStack") => stack.reported

\* A deployment that waited through a deletion and a creation, asked again in
\* between, and reported success.
C30_Witness ==
    /\ stack.command = "deployStack"
    /\ stack.pc = "done"
    /\ stack.reported
    /\ stack.deletion = "complete"
    /\ Includes(stack.deleteObserved, "does not exist")
    /\ stack.observed = "CREATE_COMPLETE"
    /\ stack.polls = MaxPolls

====
